---- MODULE Spec2Model ----
(***************************************************************************)
(* Incremental HackerNews crawler: Extracter (data_analysis/extract.py).   *)
(* One crawl process runs at a time; the only concurrency is inside one    *)
(* group of fetch_batch (asyncio.gather).  Runs follow one another and     *)
(* share the persisted ledger, snapshot and item dump.                     *)
(***************************************************************************)
EXTENDS Integers, Sequences, FiniteSets, TLC

(***************************************************************************)
(* Bounds of the model.                                                    *)
(***************************************************************************)
MaxDepth == 2      \* max_comment_depth ranges over 0..MaxDepth
MaxTop == 2        \* max_top_comments ranges over 1..MaxTop
MaxChild == 2      \* max_child_comments ranges over 1..MaxChild
MaxBatch == 2      \* batch_size ranges over 1..MaxBatch
MaxRuns == 2       \* successive calls of fetch_hackernews_data
MaxDown == 1       \* ids whose fetch raises during one run

(***************************************************************************)
(* Program constants.                                                      *)
(***************************************************************************)
\* Extracter(stories_per_category=5), fetch_hackernews_data(stories_per_category=3)
\* of data_analysis/fetcher.py, and main's call with stories_per_category=10
DefaultStoriesPerCategory == 5
SeqStoriesPerCategory == 3
PipelineStoriesPerCategory == 10

Categories ==
  <<"topstories", "newstories", "beststories", "askstories", "showstories", "jobstories">>

CategorySet == {Categories[k] : k \in 1..Len(Categories)}

(***************************************************************************)
(* The source corpus: a comment forest behind the three endpoints.         *)
(* Usernames are coded as numbers above 100 (an item id is an int and a    *)
(* username a str in the program, so the two never compare equal).         *)
(***************************************************************************)
alice == 101
bob == 102
carol == 103
dave == 104
NoAuthor == 0

ItemIds == 1..15
UserIds == {alice, bob, carol, dave}
AllIds == ItemIds \cup UserIds

\* /v0/<category>.json : story 2 is listed by two categories, 4 is a job
SourceList(c) ==
  CASE c = "topstories" -> <<1, 2>>
    [] c = "newstories" -> <<2, 3>>
    [] c = "jobstories" -> <<4>>
    [] OTHER -> <<>>

\* /v0/item/<id>.json : "null" is the JSON null of a missing item,
\* "none" an item that carries no type field
ItemType(id) ==
  CASE id \in {1, 2, 3} -> "story"
    [] id = 4 -> "job"
    [] id = 6 -> "none"
    [] id = 8 -> "null"
    [] OTHER -> "comment"

ItemBy(id) ==
  CASE id \in {1, 3, 11} -> alice
    [] id \in {2, 5, 13} -> bob
    [] id \in {6, 9, 14} -> carol
    [] id \in {10, 12} -> dave
    [] OTHER -> NoAuthor

\* the kids lists of a tree-shaped source
TreeKids(id) ==
  CASE id = 1 -> <<5, 6, 7>>
    [] id = 2 -> <<8, 9>>
    [] id = 5 -> <<10, 11, 12>>
    [] id = 9 -> <<13>>
    [] id = 10 -> <<14>>
    [] id = 14 -> <<15>>
    [] OTHER -> <<>>

\* the kids lists of a source that is not a tree: comment 5 names itself,
\* comment 10 is a kid of 5 and of 9, 10 and 13 name their parents
CyclicKids(id) ==
  CASE id = 5 -> <<5, 10, 11>>
    [] id = 9 -> <<13, 10>>
    [] id = 10 -> <<5, 14>>
    [] id = 13 -> <<9>>
    [] OTHER -> TreeKids(id)

\* which of the two sources the crawl runs against
VARIABLE kidsGraph

ItemKids(id) == IF kidsGraph = "cyclic" THEN CyclicKids(id) ELSE TreeKids(id)

\* the items of the tree-shaped source that name id among their kids
Parents(id) == {p \in ItemIds : \E k \in 1..Len(TreeKids(p)) : TreeKids(p)[k] = id}

\* depth of a comment as the crawl counts it: 0 for the kids of a root story
RECURSIVE TreeDepth(_)
TreeDepth(id) ==
  LET p == CHOOSE q \in Parents(id) : TRUE
  IN IF Parents(p) = {} THEN 0 ELSE TreeDepth(p) + 1

\* ids that are the kid of some item
CommentTreeIds == {x \in ItemIds : Parents(x) # {}}

\* /v0/user/<name>.json : dave's profile is null
UserExists(u) == u # dave

\* ledgers a first run may find on disk
InitLedgers == {{}, {2}, {5, alice}}

\* ids whose fetch may raise, category listings that may raise
FaultPool == {2, 4, 5, bob}
ListFaultSets == {{}, {"newstories"}, CategorySet}

VARIABLES
  stories_per_category,
  max_comment_depth, max_top_comments, max_child_comments, batch_size,
  ledgerFile, snapshotFile, dumpFile,
  run, pc, down, listDown,
  processed_ids, all_story_ids, new_story_ids_by_category, catIdx,
  stories, comments, users, seen_items, seen_users,
  story_authors, all_comment_ids,
  comment_ids, depth, comment_authors, child_comment_ids,
  fb_ids, fb_kind, fb_i, fb_ret, inflight, got, all_results,
  result,
  requested, passed, dropped, ledgerAtStart, snapshotAtStart, writeLog,
  prevDown, prevListDown,
  ledgerDisk, torn, writeFault, diskAtStart, loaded,
  frames, storyIdx, seqItem,
  q_story_ids, queue, current_batch, q_new_ids, seen_ids,
  corpusFile, vectorStore, mainBranch, mainReturn, retriever, writtenDocs, indexedDocs

config == <<stories_per_category, max_comment_depth, max_top_comments, max_child_comments,
           batch_size>>
files == <<ledgerFile, snapshotFile, dumpFile>>
env == <<down, listDown>>
crawl == <<stories, comments, users, seen_items, seen_users>>
catLocals == <<story_authors, all_comment_ids>>
comLocals == <<comment_ids, depth, comment_authors, child_comment_ids>>
frame == <<fb_ids, fb_kind, fb_i, fb_ret, inflight, got, all_results>>
runVars == <<processed_ids, all_story_ids, new_story_ids_by_category>>
history == <<requested, passed, dropped, ledgerAtStart, snapshotAtStart, writeLog,
             prevDown, prevListDown>>

\* processed_ids.json as written (ledgerFile is the set of ids it denotes), the
\* files left half written, the write that raises in this run
disk == <<ledgerDisk, torn, writeFault, diskAtStart, loaded>>

\* the sequential crawler of data_analysis/fetcher.py: the pending calls of
\* get_comments_with_metadata (innermost last), the position in the
\* category's id list and the item whose author's profile is awaited
seqLocals == <<frames, storyIdx, seqItem>>

\* the queue crawler get_hn_content of hn_rag/fetcher.py: its argument and its
\* locals (q_story_ids is story_ids; q_new_ids is the part of new_ids that is
\* not processed yet)
queueLocals == <<q_story_ids, queue, current_batch, q_new_ids, seen_ids>>

\* main of pipeline/run_pipeline.py: the preprocessed corpus file and the
\* vector store (the ids whose documents they hold), the branch taken and the
\* value returned; a call of get_retriever in another process (its position
\* and the documents it has loaded); the ids whose documents have ever been
\* written to the corpus file and ever been added to the vector store
pipeLocals == <<corpusFile, vectorStore, mainBranch, mainReturn, retriever, writtenDocs,
               indexedDocs>>

\* what lies outside the run of the Extracter
outside == <<kidsGraph, seqLocals, queueLocals, pipeLocals>>

vars == <<config, files, run, pc, env, runVars, catIdx, crawl, catLocals, comLocals,
          frame, result, history, disk, outside>>

(***************************************************************************)
(* Sequence helpers.                                                       *)
(***************************************************************************)
Min(a, b) == IF a < b THEN a ELSE b

\* Python s[:n] for n >= 0
Take(s, n) == SubSeq(s, 1, Min(n, Len(s)))

SeqRange(s) == {s[k] : k \in 1..Len(s)}

Ids(items) == {items[k].id : k \in 1..Len(items)}

EmptySnapshot == [exists |-> FALSE, stories |-> <<>>, comments |-> <<>>, users |-> <<>>]

(***************************************************************************)
(* Endpoint client and fetch_batch.                                        *)
(***************************************************************************)
\* what one fetch coroutine gives to asyncio.gather(return_exceptions=True)
Outcome(kind, id) ==
  IF id \in down THEN "raise"
  ELSE IF kind = "item" THEN (IF ItemType(id) = "null" THEN "null" ELSE "ok")
  ELSE (IF UserExists(id) THEN "ok" ELSE "null")

\* faulty variant: the isinstance test is forgotten
ValidResultTruthy(r) == r.status # "null"

\* r and not isinstance(r, Exception)
ValidResult(r) == r.status # "null" /\ r.status # "raise"

\* faulty variant: the slice is one element too long
GroupPositionsInclusive(i, n) == i .. Min(i + batch_size, n)

\* ids_or_names[i : i + bs], as 1-based positions of a list of length n
GroupPositions(i, n) == i .. Min(i + batch_size - 1, n)

CallFetchBatch(ids, kind, ret) ==
  /\ fb_ids' = ids
  /\ fb_kind' = kind
  /\ fb_ret' = ret
  /\ fb_i' = 1
  /\ inflight' = {}
  /\ got' = <<>>
  /\ all_results' = <<>>
  /\ pc' = "fetch_issue"

RECURSIVE GatherResults(_, _)
GatherResults(positions, g) ==
  IF positions = {} THEN <<>>
  ELSE LET p == CHOOSE q \in positions : \A o \in positions : q <= o
       IN <<[id |-> fb_ids[p], status |-> g[p]]>> \o GatherResults(positions \ {p}, g)

\* tasks = [fetch_func(session, item) for item in batch_data]; gather starts them
FetchIssue ==
  /\ pc = "fetch_issue"
  /\ LET group == GroupPositions(fb_i, Len(fb_ids))
     IN /\ inflight' = group
        /\ got' = [p \in group |-> "pending"]
        /\ requested' = [x \in AllIds |->
                           requested[x] + Cardinality({p \in group : fb_ids[p] = x})]
  /\ pc' = "fetch_wait"
  /\ UNCHANGED <<config, outside, disk, files, run, env, runVars, catIdx, crawl, catLocals, comLocals,
                 fb_ids, fb_kind, fb_i, fb_ret, all_results, result,
                 passed, dropped, ledgerAtStart, snapshotAtStart, writeLog,
                 prevDown, prevListDown>>

\* faulty variant: a fetch that raises is never handed back to gather
FetchCompleteLosesRaise(p) ==
  /\ pc = "fetch_wait"
  /\ p \in inflight
  /\ Outcome(fb_kind, fb_ids[p]) # "raise"
  /\ inflight' = inflight \ {p}
  /\ got' = [got EXCEPT ![p] = Outcome(fb_kind, fb_ids[p])]
  /\ UNCHANGED <<config, outside, disk, files, run, pc, env, runVars, catIdx, crawl, catLocals, comLocals,
                 fb_ids, fb_kind, fb_i, fb_ret, all_results, result, history>>

\* one fetch of the group completes, in any order
FetchComplete(p) ==
  /\ pc = "fetch_wait"
  /\ p \in inflight
  /\ inflight' = inflight \ {p}
  /\ got' = [got EXCEPT ![p] = Outcome(fb_kind, fb_ids[p])]
  /\ UNCHANGED <<config, outside, disk, files, run, pc, env, runVars, catIdx, crawl, catLocals, comLocals,
                 fb_ids, fb_kind, fb_i, fb_ret, all_results, result, history>>

\* faulty variant: the wait ends with the first fetch that is back, the rest is dropped
FetchGatherFirstBack ==
  /\ pc = "fetch_wait"
  /\ \E p \in DOMAIN got : got[p] # "pending"
  /\ inflight' = {}
  /\ LET batch_results == GatherResults(DOMAIN got, got)
         valid_results == SelectSeq(batch_results, ValidResult)
     IN all_results' = all_results \o valid_results
  /\ fb_i' = fb_i + batch_size
  /\ pc' = IF fb_i + batch_size > Len(fb_ids) THEN fb_ret ELSE "fetch_issue"
  /\ UNCHANGED <<config, outside, disk, files, run, env, runVars, catIdx, crawl, catLocals, comLocals,
                 fb_ids, fb_kind, fb_ret, got, result, history>>

\* gather returns: filter, extend, next group or return all_results
FetchGather ==
  /\ pc = "fetch_wait"
  /\ inflight = {}
  /\ LET batch_results == GatherResults(DOMAIN got, got)
         valid_results == SelectSeq(batch_results, ValidResult)
     IN all_results' = all_results \o valid_results
  /\ fb_i' = fb_i + batch_size
  /\ pc' = IF fb_i + batch_size > Len(fb_ids) THEN fb_ret ELSE "fetch_issue"
  /\ UNCHANGED <<config, outside, disk, files, run, env, runVars, catIdx, crawl, catLocals, comLocals,
                 fb_ids, fb_kind, fb_ret, inflight, got, result, history>>

(***************************************************************************)
(* Tree crawler: pure parts.                                               *)
(***************************************************************************)
\* faulty variant: the roots are not filtered against the ledger
NewStoryIdsUnfiltered(story_ids, processed) == story_ids

\* [sid for sid in story_ids if sid not in processed_ids]
NewStoryIds(story_ids, processed) ==
  SelectSeq(story_ids, LAMBDA sid : sid \notin processed)

\* [cid for cid in comment_ids if cid not in seen_items and cid not in processed_ids]
NewCommentIds(cids, seen, processed) ==
  SelectSeq(cids, LAMBDA cid : cid \notin seen /\ cid \notin processed)

\* story["kids"][: self.max_top_comments]
TopKids(kids) == Take(kids, max_top_comments)

\* faulty variant: the cap of the stories is applied to the comments
ChildKidsTopCap(kids) == Take(kids, max_top_comments)

\* comment["kids"][: self.max_child_comments]
ChildKids(kids) == Take(kids, max_child_comments)

\* faulty variant: the depth test is off by one
DepthReachedStrict(d) == d > max_comment_depth

\* depth >= self.max_comment_depth
DepthReached(d) == d >= max_comment_depth

\* depth < self.max_comment_depth - 1
MayDescend(d) == d < max_comment_depth - 1

\* (author := item.get("by")) and author not in seen_users
NewAuthor(author, seen) == author # NoAuthor /\ author \notin seen

StoryItem(id, category) ==
  [id |-> id, type |-> "story", by |-> ItemBy(id),
   hn_category |-> category, hn_endpoint |-> category]

\* faulty variant: every comment is tagged with depth 0
CommentItemFlat(id, category, d) ==
  [id |-> id, type |-> "comment", by |-> ItemBy(id),
   hn_category |-> category,
   hn_context |-> "comment_on_" \o category \o "_story",
   hn_depth |-> 0]

CommentItem(id, category, d) ==
  [id |-> id, type |-> "comment", by |-> ItemBy(id),
   hn_category |-> category,
   hn_context |-> "comment_on_" \o category \o "_story",
   hn_depth |-> d]

UserItem(id, context) == [id |-> id, hn_context |-> context]

\* faulty variant: the type of the root item is not tested
StoryStepAnyType(acc, r, category) ==
  IF acc.crashed THEN acc
  ELSE IF r.status = "raise" THEN [acc EXCEPT !.crashed = TRUE]
  ELSE IF r.status = "ok" THEN
    LET author == ItemBy(r.id)
        fresh == NewAuthor(author, acc.seen_users)
        kids == ItemKids(r.id)
    IN [acc EXCEPT
          !.stories = Append(@, StoryItem(r.id, category)),
          !.seen_items = @ \cup {r.id},
          !.story_authors = IF fresh THEN Append(@, author) ELSE @,
          !.seen_users = IF fresh THEN @ \cup {author} ELSE @,
          !.all_comment_ids = IF kids # <<>> THEN @ \o TopKids(kids) ELSE @,
          !.passed = IF kids # <<>> THEN [@ EXCEPT ![r.id] = TopKids(kids)] ELSE @]
  ELSE acc

\* body of: for story in batch_stories
StoryStep(acc, r, category) ==
  IF acc.crashed THEN acc
  ELSE IF r.status = "raise" THEN [acc EXCEPT !.crashed = TRUE]
  ELSE IF r.status = "ok" /\ ItemType(r.id) = "story" THEN
    LET author == ItemBy(r.id)
        fresh == NewAuthor(author, acc.seen_users)
        kids == ItemKids(r.id)
    IN [acc EXCEPT
          !.stories = Append(@, StoryItem(r.id, category)),
          !.seen_items = @ \cup {r.id},
          !.story_authors = IF fresh THEN Append(@, author) ELSE @,
          !.seen_users = IF fresh THEN @ \cup {author} ELSE @,
          !.all_comment_ids = IF kids # <<>> THEN @ \o TopKids(kids) ELSE @,
          !.passed = IF kids # <<>> THEN [@ EXCEPT ![r.id] = TopKids(kids)] ELSE @]
  ELSE acc

RECURSIVE StoryLoop(_, _, _)
StoryLoop(batch, category, acc) ==
  IF batch = <<>> THEN acc
  ELSE StoryLoop(Tail(batch), category, StoryStep(acc, Head(batch), category))

\* body of: for comment in batch_comments
CommentStep(acc, r, category, d) ==
  IF acc.crashed THEN acc
  ELSE IF r.status = "raise" THEN [acc EXCEPT !.crashed = TRUE]
  ELSE IF r.status = "ok" /\ ItemType(r.id) = "comment" THEN
    LET author == ItemBy(r.id)
        fresh == NewAuthor(author, acc.seen_users)
        kids == ItemKids(r.id)
        descend == kids # <<>> /\ MayDescend(d)
    IN [acc EXCEPT
          !.comments = Append(@, CommentItem(r.id, category, d)),
          !.seen_items = @ \cup {r.id},
          !.kept = @ \cup {r.id},
          !.comment_authors = IF fresh THEN Append(@, author) ELSE @,
          !.seen_users = IF fresh THEN @ \cup {author} ELSE @,
          !.child_comment_ids = IF descend THEN @ \o ChildKids(kids) ELSE @,
          !.passed = IF descend THEN [@ EXCEPT ![r.id] = ChildKids(kids)] ELSE @]
  ELSE acc

RECURSIVE CommentLoop(_, _, _, _)
CommentLoop(batch, category, d, acc) ==
  IF batch = <<>> THEN acc
  ELSE CommentLoop(Tail(batch), category, d, CommentStep(acc, Head(batch), category, d))

\* body of: for user in await self.fetch_batch(...)
UserStep(acc, r, context) ==
  IF acc.crashed THEN acc
  ELSE IF r.status = "raise" THEN [acc EXCEPT !.crashed = TRUE]
  ELSE IF r.status = "ok" THEN [acc EXCEPT !.users = Append(@, UserItem(r.id, context))]
  ELSE acc

RECURSIVE UserLoop(_, _, _)
UserLoop(batch, context, acc) ==
  IF batch = <<>> THEN acc
  ELSE UserLoop(Tail(batch), context, UserStep(acc, Head(batch), context))

(***************************************************************************)
(* Ledger, category listing, snapshot writer: pure parts.                  *)
(***************************************************************************)
\* Endpoints.get_all_stories: a listing that raises falls back to []
\* faulty variant: one try block around the loop, the first failure ends the listing
GetAllStoriesAbort(failing) ==
  [c \in CategorySet |->
     IF \E j, k \in 1..Len(Categories) :
          j <= k /\ Categories[k] = c /\ Categories[j] \in failing
     THEN <<>> ELSE Take(SourceList(c), stories_per_category)]

GetAllStories(failing) ==
  [c \in CategorySet |->
     IF c \in failing THEN <<>> ELSE Take(SourceList(c), stories_per_category)]

RECURSIVE TotalNew(_, _)
TotalNew(byCat, k) ==
  IF k = 0 THEN 0 ELSE Len(byCat[Categories[k]]) + TotalNew(byCat, k - 1)

\* faulty variant: every id that was asked for is recorded
NewIdsAttempted(items) == {x \in AllIds : requested[x] > 0}

\* {item["id"] for item in new_items if item and item.get("id")}
NewIds(items) == {items[k].id : k \in {j \in 1..Len(items) : items[j].id # 0}}

\* faulty variant: the new ids are not merged
UpdatedLedgerKeep(processed, new_ids) == processed

\* faulty variant: the new ids replace the ledger
UpdatedLedgerReplace(processed, new_ids) == new_ids

\* processed_ids.update(new_ids)
UpdatedLedger(processed, new_ids) == processed \cup new_ids

\* json.dump of one id: an item id is a JSON number, a username a JSON string
JsonEncode(x) ==
  IF x \in UserIds THEN [json |-> "string", val |-> x] ELSE [json |-> "number", val |-> x]

\* json.load of one token: a number gives an int, a string a str
JsonDecode(tok) == tok.val

\* json.dump(list(processed_ids), f): one token per id.  The tokens stand in
\* the file in the iteration order of the Python set, which the code does not
\* fix (it changes with the hash seed); the file is therefore kept as the set
\* of its tokens and no order is asserted.
JsonDumpIds(S) == {JsonEncode(x) : x \in S}

\* set(json.load(f))
JsonLoadIds(tokens) == {JsonDecode(tok) : tok \in tokens}

NoDisk == [exists |-> FALSE, tokens |-> {}]

\* faulty variant: the file is opened for appending
SaveProcessedIdsAppend(old, S) == [exists |-> TRUE, tokens |-> old.tokens \cup JsonDumpIds(S)]

\* save_processed_ids: open(..., "w") replaces whatever the file held
SaveProcessedIds(old, S) == [exists |-> TRUE, tokens |-> JsonDumpIds(S)]

\* what an interrupted json.dump leaves: the file holds the tokens written
\* before f.write raised, any part of the dump from nothing to all of it
\* without the closing bracket; it cannot be parsed
TornDumps(S) == {[exists |-> TRUE, tokens |-> T] : T \in SUBSET JsonDumpIds(S)}

\* load_processed_ids on a parseable or missing file
LoadProcessedIds(file) == IF file.exists THEN JsonLoadIds(file.tokens) ELSE {}

\* the call of load_processed_ids: json.load raises on a file it cannot parse
LoadOutcome(file, unparseable) ==
  IF file.exists /\ unparseable THEN [status |-> "raise", ids |-> {}]
  ELSE [status |-> "ok", ids |-> LoadProcessedIds(file)]

NotLoaded == [status |-> "none", ids |-> {}]

NoFault == [file |-> "none", torn |-> FALSE]

(***************************************************************************)
(* Initial state: nothing persisted but the ledger, no run started.        *)
(***************************************************************************)
\* no run has started: the locals of the crawl and the history are empty
CrawlNotStarted ==
  /\ snapshotFile = EmptySnapshot
  /\ dumpFile = <<>>
  /\ run = 0
  /\ down = {}
  /\ listDown = {}
  /\ all_story_ids = [c \in CategorySet |-> <<>>]
  /\ new_story_ids_by_category = [c \in CategorySet |-> <<>>]
  /\ catIdx = 1
  /\ stories = <<>>
  /\ comments = <<>>
  /\ users = <<>>
  /\ seen_items = {}
  /\ seen_users = {}
  /\ story_authors = <<>>
  /\ all_comment_ids = <<>>
  /\ comment_ids = <<>>
  /\ depth = 0
  /\ comment_authors = <<>>
  /\ child_comment_ids = <<>>
  /\ fb_ids = <<>>
  /\ fb_kind = "item"
  /\ fb_i = 1
  /\ fb_ret = "stories"
  /\ inflight = {}
  /\ got = <<>>
  /\ all_results = <<>>
  /\ result = <<>>
  /\ requested = [x \in AllIds |-> 0]
  /\ passed = [x \in ItemIds |-> <<>>]
  /\ dropped = {}
  /\ ledgerAtStart = ledgerFile
  /\ snapshotAtStart = snapshotFile
  /\ writeLog = <<>>
  /\ prevDown = {}
  /\ prevListDown = {}
  /\ writeFault = NoFault
  /\ loaded = NotLoaded
  /\ frames = <<>>
  /\ storyIdx = 1
  /\ seqItem = 0
  /\ q_story_ids = <<>>
  /\ queue = <<>>
  /\ current_batch = <<>>
  /\ q_new_ids = <<>>
  /\ seen_ids = {}

RetrieverIdle == [pc |-> "idle", docs |-> {}]

\* the pipeline, the query side and the Loader have not been used
PipeNotStarted ==
  /\ corpusFile = [exists |-> FALSE, ids |-> {}]
  /\ vectorStore = [exists |-> FALSE, ids |-> {}]
  /\ mainBranch = "none"
  /\ mainReturn = "none"
  /\ retriever = RetrieverIdle
  /\ writtenDocs = {}
  /\ indexedDocs = {}

NotStarted == CrawlNotStarted /\ PipeNotStarted

Init ==
  /\ stories_per_category = DefaultStoriesPerCategory
  /\ kidsGraph = "tree"
  /\ max_comment_depth \in 0..MaxDepth
  /\ max_top_comments \in 1..MaxTop
  /\ max_child_comments \in 1..MaxChild
  /\ batch_size \in 1..MaxBatch
  /\ ledgerFile \in InitLedgers
  /\ pc = "idle"
  /\ processed_ids = {}
  /\ NotStarted
  /\ ledgerDisk = SaveProcessedIds(NoDisk, ledgerFile)
  /\ torn = {}
  /\ diskAtStart = ledgerDisk

(***************************************************************************)
(* fetch_hackernews_data._fetch up to the call of the crawler.             *)
(***************************************************************************)
\* faulty variant: the early return is missing
AfterListingAlwaysCrawl(total_new_stories) == "cat"

\* if total_new_stories == 0: return []
AfterListing(total_new_stories) == IF total_new_stories = 0 THEN "done" ELSE "cat"

StartRunBody(ld, d, l) ==
  /\ run' = run + 1
  /\ down' = d
  /\ listDown' = l
  /\ prevDown' = down
  /\ prevListDown' = listDown
  /\ loaded' = ld
  /\ processed_ids' = ld.ids
  /\ all_story_ids' = [c \in CategorySet |-> <<>>]
  /\ new_story_ids_by_category' = [c \in CategorySet |-> <<>>]
  /\ pc' = "listing"
  /\ result' = <<>>
  /\ catIdx' = 1
  /\ stories' = <<>>
  /\ comments' = <<>>
  /\ users' = <<>>
  /\ seen_items' = {}
  /\ seen_users' = {}
  /\ story_authors' = <<>>
  /\ all_comment_ids' = <<>>
  /\ comment_ids' = <<>>
  /\ depth' = 0
  /\ comment_authors' = <<>>
  /\ child_comment_ids' = <<>>
  /\ fb_ids' = <<>>
  /\ fb_kind' = "item"
  /\ fb_i' = 1
  /\ fb_ret' = "stories"
  /\ inflight' = {}
  /\ got' = <<>>
  /\ all_results' = <<>>
  /\ requested' = [x \in AllIds |-> 0]
  /\ passed' = [x \in ItemIds |-> <<>>]
  /\ dropped' = {}
  /\ ledgerAtStart' = ledgerFile
  /\ snapshotAtStart' = snapshotFile
  /\ diskAtStart' = ledgerDisk
  /\ writeLog' = <<>>
  /\ UNCHANGED <<config, outside, files, ledgerDisk, torn>>

\* a run in which every write succeeds
StartRun ==
  /\ pc \in {"idle", "done", "crashed"}
  /\ run < MaxRuns
  /\ \E d \in SUBSET FaultPool, l \in ListFaultSets :
       /\ Cardinality(d) <= MaxDown
       /\ StartRunBody(LoadOutcome(ledgerDisk, "ledger" \in torn), d, l)
  /\ UNCHANGED writeFault

\* get_all_stories: the listing of one category is awaited; a listing that
\* raises leaves the category empty (catIdx is the position in this loop too)
ListCategory ==
  /\ pc = "listing"
  /\ catIdx <= Len(Categories)
  /\ all_story_ids' = [all_story_ids EXCEPT ![Categories[catIdx]] =
                                             GetAllStories(listDown)[Categories[catIdx]]]
  /\ catIdx' = catIdx + 1
  /\ UNCHANGED <<config, outside, disk, files, run, pc, env, processed_ids,
                 new_story_ids_by_category, crawl, catLocals, comLocals, frame, result,
                 history>>

\* after the last listing: the ids are filtered against the ledger, and the
\* run returns [] when nothing is new
FilterNewStories ==
  /\ pc = "listing"
  /\ catIdx > Len(Categories)
  /\ new_story_ids_by_category' =
       [c \in CategorySet |-> NewStoryIds(all_story_ids[c], processed_ids)]
  /\ pc' = AfterListing(TotalNew(new_story_ids_by_category', Len(Categories)))
  /\ catIdx' = 1
  /\ UNCHANGED <<config, outside, disk, files, run, env, processed_ids, all_story_ids,
                 crawl, catLocals, comLocals, frame, result, history>>

(***************************************************************************)
(* get_hn_content_with_metadata: the loop over the categories.             *)
(***************************************************************************)
\* faulty variant: a category with nothing new ends the loop (break for continue)
NextCategoryBreak ==
  /\ pc = "cat"
  /\ catIdx <= Len(Categories)
  /\ LET story_ids == new_story_ids_by_category[Categories[catIdx]]
         new_story_ids == NewStoryIds(story_ids, processed_ids)
     IN IF new_story_ids = <<>>
        THEN /\ catIdx' = Len(Categories) + 1
             /\ UNCHANGED <<pc, frame>>
        ELSE /\ CallFetchBatch(new_story_ids, "item", "stories")
             /\ UNCHANGED catIdx
  /\ UNCHANGED <<config, outside, disk, files, run, env, runVars, crawl, catLocals, comLocals,
                 result, history>>

\* top of the for loop: filter the category's ids, skip or fetch the stories
NextCategory ==
  /\ pc = "cat"
  /\ catIdx <= Len(Categories)
  /\ LET story_ids == new_story_ids_by_category[Categories[catIdx]]
         new_story_ids == NewStoryIds(story_ids, processed_ids)
     IN IF new_story_ids = <<>>
        THEN /\ catIdx' = catIdx + 1
             /\ UNCHANGED <<pc, frame>>
        ELSE /\ CallFetchBatch(new_story_ids, "item", "stories")
             /\ UNCHANGED catIdx
  /\ UNCHANGED <<config, outside, disk, files, run, env, runVars, crawl, catLocals, comLocals,
                 result, history>>

\* leave the category (all_comment_ids empty, or get_comments_with_metadata returned)
LeaveCategory ==
  /\ pc' = "cat"
  /\ catIdx' = catIdx + 1

\* if all_comment_ids: await self.get_comments_with_metadata(..., 0, category)
ExpandOrLeave(ids) ==
  IF ids # <<>>
  THEN /\ pc' = "comments_enter"
       /\ comment_ids' = ids
       /\ depth' = 0
       /\ UNCHANGED catIdx
  ELSE /\ LeaveCategory
       /\ UNCHANGED <<comment_ids, depth>>

\* the stories of the category are back: tag them, collect authors and children
ProcessStories ==
  /\ pc = "stories"
  /\ LET category == Categories[catIdx]
         acc == StoryLoop(all_results, category,
                          [stories |-> stories, seen_items |-> seen_items,
                           seen_users |-> seen_users, story_authors |-> <<>>,
                           all_comment_ids |-> <<>>, passed |-> passed,
                           crashed |-> FALSE])
     IN IF acc.crashed
        THEN /\ pc' = "crashed"
             /\ UNCHANGED <<stories, seen_items, seen_users, catLocals, passed,
                            frame, catIdx, comment_ids, depth>>
        ELSE /\ stories' = acc.stories
             /\ seen_items' = acc.seen_items
             /\ seen_users' = acc.seen_users
             /\ story_authors' = acc.story_authors
             /\ all_comment_ids' = acc.all_comment_ids
             /\ passed' = acc.passed
             /\ IF acc.story_authors # <<>>
                THEN /\ CallFetchBatch(acc.story_authors, "user", "authors")
                     /\ UNCHANGED <<catIdx, comment_ids, depth>>
                ELSE /\ ExpandOrLeave(acc.all_comment_ids)
                     /\ UNCHANGED frame
  /\ UNCHANGED <<config, outside, disk, files, run, env, runVars, comments, users,
                 comment_authors, child_comment_ids, result,
                 requested, dropped, ledgerAtStart, snapshotAtStart, writeLog,
                 prevDown, prevListDown>>

\* the author profiles are back
ProcessAuthors ==
  /\ pc = "authors"
  /\ LET category == Categories[catIdx]
         acc == UserLoop(all_results, "author_of_" \o category \o "_story",
                         [users |-> users, crashed |-> FALSE])
     IN IF acc.crashed
        THEN /\ pc' = "crashed"
             /\ UNCHANGED <<users, catIdx, comment_ids, depth>>
        ELSE /\ users' = acc.users
             /\ ExpandOrLeave(all_comment_ids)
  /\ UNCHANGED <<config, outside, disk, files, run, env, runVars, stories, comments, seen_items,
                 seen_users, catLocals, comment_authors, child_comment_ids, frame,
                 result, history>>

(***************************************************************************)
(* get_comments_with_metadata: one level of the comment tree per entry.    *)
(***************************************************************************)
\* entry: depth test, filter against the seen set and the ledger, fetch
EnterComments ==
  /\ pc = "comments_enter"
  /\ LET new_comment_ids == NewCommentIds(comment_ids, seen_items, processed_ids)
     IN IF DepthReached(depth) \/ comment_ids = <<>> \/ new_comment_ids = <<>>
        THEN /\ LeaveCategory
             /\ UNCHANGED frame
        ELSE /\ CallFetchBatch(new_comment_ids, "item", "comments")
             /\ UNCHANGED catIdx
  /\ UNCHANGED <<config, outside, disk, files, run, env, runVars, crawl, catLocals, comLocals,
                 result, history>>

\* faulty variant: the recursive call passes depth instead of depth + 1
DescendOrLeaveSameDepth(ids) ==
  IF ids # <<>> /\ MayDescend(depth)
  THEN /\ pc' = "comments_enter"
       /\ comment_ids' = ids
       /\ depth' = depth
       /\ UNCHANGED catIdx
  ELSE /\ LeaveCategory
       /\ UNCHANGED <<comment_ids, depth>>

\* if child_comment_ids and depth < self.max_comment_depth - 1: recurse (tail call)
DescendOrLeave(ids) ==
  IF ids # <<>> /\ MayDescend(depth)
  THEN /\ pc' = "comments_enter"
       /\ comment_ids' = ids
       /\ depth' = depth + 1
       /\ UNCHANGED catIdx
  ELSE /\ LeaveCategory
       /\ UNCHANGED <<comment_ids, depth>>

\* faulty variant: the commenters are fetched only when the level has children to expand
ProcessCommentsNoLastAuthors ==
  /\ pc = "comments"
  /\ LET category == Categories[catIdx]
         acc == CommentLoop(all_results, category, depth,
                            [comments |-> comments, seen_items |-> seen_items,
                             seen_users |-> seen_users, comment_authors |-> <<>>,
                             child_comment_ids |-> <<>>, passed |-> passed,
                             kept |-> {}, crashed |-> FALSE])
     IN IF acc.crashed
        THEN /\ pc' = "crashed"
             /\ UNCHANGED <<comments, seen_items, seen_users, comLocals, passed, dropped,
                            frame, catIdx>>
        ELSE /\ comments' = acc.comments
             /\ seen_items' = acc.seen_items
             /\ seen_users' = acc.seen_users
             /\ comment_authors' = acc.comment_authors
             /\ child_comment_ids' = acc.child_comment_ids
             /\ passed' = acc.passed
             /\ dropped' = dropped \cup (SeqRange(fb_ids) \ acc.kept)
             /\ IF acc.comment_authors # <<>> /\ acc.child_comment_ids # <<>>
                THEN /\ CallFetchBatch(acc.comment_authors, "user", "commenters")
                     /\ UNCHANGED <<catIdx, comment_ids, depth>>
                ELSE /\ DescendOrLeave(acc.child_comment_ids)
                     /\ UNCHANGED frame
  /\ UNCHANGED <<config, outside, disk, files, run, env, runVars, stories, users, catLocals, result,
                 requested, ledgerAtStart, snapshotAtStart, writeLog,
                 prevDown, prevListDown>>

\* the comments of this level are back: tag them, collect authors and children
ProcessComments ==
  /\ pc = "comments"
  /\ LET category == Categories[catIdx]
         acc == CommentLoop(all_results, category, depth,
                            [comments |-> comments, seen_items |-> seen_items,
                             seen_users |-> seen_users, comment_authors |-> <<>>,
                             child_comment_ids |-> <<>>, passed |-> passed,
                             kept |-> {}, crashed |-> FALSE])
     IN IF acc.crashed
        THEN /\ pc' = "crashed"
             /\ UNCHANGED <<comments, seen_items, seen_users, comLocals, passed, dropped,
                            frame, catIdx>>
        ELSE /\ comments' = acc.comments
             /\ seen_items' = acc.seen_items
             /\ seen_users' = acc.seen_users
             /\ comment_authors' = acc.comment_authors
             /\ child_comment_ids' = acc.child_comment_ids
             /\ passed' = acc.passed
             /\ dropped' = dropped \cup (SeqRange(fb_ids) \ acc.kept)
             /\ IF acc.comment_authors # <<>>
                THEN /\ CallFetchBatch(acc.comment_authors, "user", "commenters")
                     /\ UNCHANGED <<catIdx, comment_ids, depth>>
                ELSE /\ DescendOrLeave(acc.child_comment_ids)
                     /\ UNCHANGED frame
  /\ UNCHANGED <<config, outside, disk, files, run, env, runVars, stories, users, catLocals, result,
                 requested, ledgerAtStart, snapshotAtStart, writeLog,
                 prevDown, prevListDown>>

\* the commenter profiles are back
ProcessCommenters ==
  /\ pc = "commenters"
  /\ LET category == Categories[catIdx]
         acc == UserLoop(all_results, "commenter_on_" \o category,
                         [users |-> users, crashed |-> FALSE])
     IN IF acc.crashed
        THEN /\ pc' = "crashed"
             /\ UNCHANGED <<users, catIdx, comment_ids, depth>>
        ELSE /\ users' = acc.users
             /\ DescendOrLeave(child_comment_ids)
  /\ UNCHANGED <<config, outside, disk, files, run, env, runVars, stories, comments, seen_items,
                 seen_users, catLocals, comment_authors, child_comment_ids, frame,
                 result, history>>

(***************************************************************************)
(* fetch_hackernews_data.save_raw_data: snapshot, ledger, item dump.       *)
(***************************************************************************)
Persist ==
  /\ pc = "cat"
  /\ catIdx > Len(Categories)
  /\ LET new_items == stories \o comments \o users
         new_ids == NewIds(new_items)
     IN /\ snapshotFile' = [exists |-> TRUE, stories |-> stories,
                            comments |-> comments, users |-> users]
        /\ processed_ids' = UpdatedLedger(processed_ids, new_ids)
        /\ ledgerDisk' = SaveProcessedIds(ledgerDisk, processed_ids')
        /\ ledgerFile' = LoadProcessedIds(ledgerDisk')
        /\ dumpFile' = new_items
        /\ result' = new_items
  /\ writeLog' = <<"snapshot", "ledger", "dump">>
  /\ pc' = "done"
  /\ UNCHANGED <<config, outside, torn, writeFault, diskAtStart, loaded, run, env, all_story_ids, new_story_ids_by_category, catIdx,
                 crawl, catLocals, comLocals, frame,
                 requested, passed, dropped, ledgerAtStart, snapshotAtStart,
                 prevDown, prevListDown>>

Next ==
  \/ StartRun
  \/ ListCategory
  \/ FilterNewStories
  \/ NextCategory
  \/ FetchIssue
  \/ \E p \in inflight : FetchComplete(p)
  \/ FetchGather
  \/ ProcessStories
  \/ ProcessAuthors
  \/ EnterComments
  \/ ProcessComments
  \/ ProcessCommenters
  \/ Persist

Spec == Init /\ [][Next]_vars

(***************************************************************************)
(* The same runs against a tree-shaped or a cyclic source, with the event  *)
(* loop running every step that is ready and every issued fetch coming     *)
(* back (with a result or an exception).                                   *)
(***************************************************************************)
InitLive ==
  /\ stories_per_category = DefaultStoriesPerCategory
  /\ kidsGraph \in {"tree", "cyclic"}
  /\ max_comment_depth \in 0..MaxDepth
  /\ max_top_comments = MaxTop
  /\ max_child_comments = MaxChild
  /\ batch_size = MaxBatch
  /\ ledgerFile = {}
  /\ pc = "idle"
  /\ processed_ids = {}
  /\ NotStarted
  /\ ledgerDisk = SaveProcessedIds(NoDisk, ledgerFile)
  /\ torn = {}
  /\ diskAtStart = ledgerDisk

\* the steps of a run once it was started
CrawlNext ==
  \/ ListCategory
  \/ FilterNewStories
  \/ NextCategory
  \/ FetchIssue
  \/ \E p \in inflight : FetchComplete(p)
  \/ FetchGather
  \/ ProcessStories
  \/ ProcessAuthors
  \/ EnterComments
  \/ ProcessComments
  \/ ProcessCommenters
  \/ Persist

SpecLive == InitLive /\ [][Next]_vars /\ WF_vars(CrawlNext)

(***************************************************************************)
(* Runs in which the ledger found on disk may be unparseable and one write *)
(* of save_raw_data may raise.  The three writes are separate steps.       *)
(***************************************************************************)
\* faulty variant: the ledger is saved before the snapshot is written
WriteOrderLedgerFirst == <<"ledger", "snapshot", "dump">>

\* hackernews_raw.json, then processed_ids.json, then enhanced_hackernews_data.json
WriteOrder == <<"snapshot", "ledger", "dump">>

\* the write that raises in a run, leaving its file untouched (open fails) or
\* truncated and half written (json.dump fails)
WriteFaults ==
  {NoFault} \cup {[file |-> f, torn |-> t] : f \in {"snapshot", "ledger", "dump"},
                                             t \in BOOLEAN}

\* listings that may fail in these runs
PersistListFaults == {{}, {"jobstories"}}

InitP ==
  /\ stories_per_category = DefaultStoriesPerCategory
  /\ kidsGraph = "tree"
  /\ max_comment_depth = 1
  /\ max_top_comments = MaxTop
  /\ max_child_comments = 1
  /\ batch_size = MaxBatch
  /\ ledgerDisk \in {NoDisk} \cup {SaveProcessedIds(NoDisk, S) : S \in InitLedgers}
  /\ torn \in {t \in {{}, {"ledger"}} : t = {} \/ ledgerDisk.exists}
  /\ ledgerFile = LoadProcessedIds(ledgerDisk)
  /\ pc = "idle"
  /\ processed_ids = {}
  /\ NotStarted
  /\ diskAtStart = ledgerDisk

\* _fetch from load_processed_ids on; the exception of json.load is not caught
StartRunP ==
  /\ pc \in {"idle", "done", "failed", "load_failed"}
  /\ run < MaxRuns
  /\ writeFault' \in WriteFaults
  /\ LET ld == LoadOutcome(ledgerDisk, "ledger" \in torn)
     IN IF ld.status = "raise"
        THEN /\ pc' = "load_failed"
             /\ run' = run + 1
             /\ loaded' = ld
             /\ diskAtStart' = ledgerDisk
             /\ result' = <<>>
             /\ writeLog' = <<>>
             /\ requested' = [x \in AllIds |-> 0]
             /\ passed' = [x \in ItemIds |-> <<>>]
             /\ dropped' = {}
             /\ ledgerAtStart' = ledgerFile
             /\ snapshotAtStart' = snapshotFile
             /\ stories' = <<>>
             /\ comments' = <<>>
             /\ users' = <<>>
             /\ seen_items' = {}
             /\ seen_users' = {}
             /\ UNCHANGED <<config, outside, files, env, runVars, catIdx, catLocals,
                            comLocals, frame, prevDown, prevListDown,
                            ledgerDisk, torn>>
        ELSE \E l \in PersistListFaults : StartRunBody(ld, {}, l)

\* one write of save_raw_data
WriteStep ==
  /\ \/ pc = "cat" /\ catIdx > Len(Categories)
     \/ pc = "writing"
  /\ LET file == WriteOrder[Len(writeLog) + 1]
         new_items == stories \o comments \o users
         updated == UpdatedLedger(processed_ids, NewIds(new_items))
     IN IF writeFault.file = file
        THEN /\ pc' = "failed"
             /\ torn' = IF writeFault.torn THEN torn \cup {file} ELSE torn
             /\ snapshotFile' = IF writeFault.torn /\ file = "snapshot"
                                THEN [EmptySnapshot EXCEPT !.exists = TRUE]
                                ELSE snapshotFile
             /\ IF writeFault.torn /\ file = "ledger"
                THEN ledgerDisk' \in TornDumps(updated)
                ELSE UNCHANGED ledgerDisk
             /\ dumpFile' = IF writeFault.torn /\ file = "dump" THEN <<>> ELSE dumpFile
             /\ processed_ids' = IF file = "ledger" THEN updated ELSE processed_ids
             /\ UNCHANGED <<ledgerFile, result, writeLog>>
        ELSE /\ writeLog' = Append(writeLog, file)
             /\ pc' = IF Len(writeLog') = Len(WriteOrder) THEN "done" ELSE "writing"
             /\ torn' = torn \ {file}
             /\ snapshotFile' = IF file = "snapshot"
                                THEN [exists |-> TRUE, stories |-> stories,
                                      comments |-> comments, users |-> users]
                                ELSE snapshotFile
             /\ processed_ids' = IF file = "ledger" THEN updated ELSE processed_ids
             /\ ledgerDisk' = IF file = "ledger"
                              THEN SaveProcessedIds(ledgerDisk, updated) ELSE ledgerDisk
             /\ ledgerFile' = IF file = "ledger"
                              THEN LoadProcessedIds(ledgerDisk') ELSE ledgerFile
             /\ dumpFile' = IF file = "dump" THEN new_items ELSE dumpFile
             /\ result' = IF Len(writeLog') = Len(WriteOrder) THEN new_items ELSE result
  /\ UNCHANGED <<config, outside, run, env, all_story_ids, new_story_ids_by_category, catIdx,
                 crawl, catLocals, comLocals, frame,
                 requested, passed, dropped, ledgerAtStart, snapshotAtStart,
                 prevDown, prevListDown, writeFault, diskAtStart, loaded>>

NextP ==
  \/ StartRunP
  \/ ListCategory
  \/ FilterNewStories
  \/ NextCategory
  \/ FetchIssue
  \/ \E p \in inflight : FetchComplete(p)
  \/ FetchGather
  \/ ProcessStories
  \/ ProcessAuthors
  \/ EnterComments
  \/ ProcessComments
  \/ ProcessCommenters
  \/ WriteStep

SpecPersist == InitP /\ [][NextP]_vars

(***************************************************************************)
(* The sequential crawler of data_analysis/fetcher.py: one item at a time, *)
(* depth first; an exception of a fetch is not caught.  It has the locals  *)
(* of the Extracter (stories, comments, users, seen_items, seen_users) and *)
(* the same _fetch prologue.                                               *)
(***************************************************************************)
\* story["kids"][:5] and comment["kids"][:3]
SeqTopCap == 5
SeqChildCap == 3

SeqTopKids(kids) == Take(kids, SeqTopCap)

\* faulty variant: two kids of a comment are followed
SeqChildKidsTwo(kids) == Take(kids, 2)

SeqChildKids(kids) == Take(kids, SeqChildCap)

\* user = await get_user(session, author) has answered:
\*   if user: user["hn_context"] = ...; users.append(user); seen_users.add(author)
SeqAuthor(author, context, st) ==
  CASE Outcome("user", author) = "raise" -> [st EXCEPT !.crashed = TRUE]
    [] Outcome("user", author) = "ok" ->
         [st EXCEPT !.users = Append(@, UserItem(author, context)),
                    !.seen_users = @ \cup {author}]
    [] OTHER -> st

\* author = item.get("by"); if author and author not in seen_users: the request
\* of get_user is issued and the crawler waits for its answer
SeqAskAuthor(item_id) ==
  IF NewAuthor(ItemBy(item_id), seen_users)
  THEN [requested EXCEPT ![ItemBy(item_id)] = @ + 1]
  ELSE requested

InitSeq ==
  /\ stories_per_category = SeqStoriesPerCategory
  /\ kidsGraph = "tree"
  /\ max_comment_depth \in 0..MaxDepth
  /\ max_top_comments = SeqTopCap
  /\ max_child_comments = SeqChildCap
  /\ batch_size = 1
  /\ ledgerFile \in InitLedgers
  /\ pc = "idle"
  /\ processed_ids = {}
  /\ NotStarted
  /\ ledgerDisk = SaveProcessedIds(NoDisk, ledgerFile)
  /\ torn = {}
  /\ diskAtStart = ledgerDisk

\* the call get_comments_with_metadata(story["kids"][:5], ..., 0, ...), if any
SeqStoryKids(story_id) ==
  IF ItemKids(story_id) # <<>>
  THEN /\ frames' = <<[ids |-> SeqTopKids(ItemKids(story_id)), depth |-> 0]>>
       /\ pc' = "seq_comments"
  ELSE /\ frames' = <<>>
       /\ pc' = "cat"

\* the recursive call on comment["kids"][:3], if any; fs is the stack with the
\* comment taken off its frame, d the depth of the comment
SeqCommentKids(comment_id, fs, d) ==
  /\ frames' = IF ItemKids(comment_id) # <<>> /\ d < max_comment_depth - 1
               THEN Append(fs, [ids |-> SeqChildKids(ItemKids(comment_id)),
                                depth |-> d + 1])
               ELSE fs
  /\ pc' = "seq_comments"

\* for story_id in story_ids (inside: for category, story_ids in ...items()),
\* up to the request of get_item, where the crawler waits
SeqNextStory ==
  /\ pc = "cat"
  /\ catIdx <= Len(Categories)
  /\ LET category == Categories[catIdx]
         story_ids == new_story_ids_by_category[category]
     IN IF storyIdx > Len(story_ids)
        THEN /\ catIdx' = catIdx + 1
             /\ storyIdx' = 1
             /\ UNCHANGED <<pc, requested, seqItem>>
        ELSE LET story_id == story_ids[storyIdx]
             IN /\ storyIdx' = storyIdx + 1
                /\ UNCHANGED catIdx
                /\ IF story_id \in processed_ids
                   THEN UNCHANGED <<pc, requested, seqItem>>
                   ELSE /\ requested' = [requested EXCEPT ![story_id] = @ + 1]
                        /\ seqItem' = story_id
                        /\ pc' = "seq_story_item"
  /\ UNCHANGED <<config, kidsGraph, queueLocals, pipeLocals, disk, files, run, env, runVars,
                 frames, crawl, catLocals, comLocals, frame, result, passed, dropped,
                 ledgerAtStart, snapshotAtStart, writeLog, prevDown, prevListDown>>

\* the answer of get_item for a story, up to the request of get_user for its
\* author or, without one, the call on its kids
SeqStoryItem ==
  /\ pc = "seq_story_item"
  /\ LET story_id == seqItem
         category == Categories[catIdx]
         kept == Outcome("item", story_id) = "ok" /\ ItemType(story_id) = "story"
     IN /\ stories' = IF kept THEN Append(stories, StoryItem(story_id, category))
                       ELSE stories
        /\ seen_items' = IF kept THEN seen_items \cup {story_id} ELSE seen_items
        /\ UNCHANGED <<comments, users, seen_users, catIdx>>
        /\ IF Outcome("item", story_id) = "raise"
           THEN /\ pc' = "crashed"
                /\ storyIdx' = 1
                /\ seqItem' = 0
                /\ UNCHANGED <<frames, requested>>
           ELSE /\ UNCHANGED storyIdx
                /\ IF ~ kept
                   THEN /\ pc' = "cat"
                        /\ seqItem' = 0
                        /\ UNCHANGED <<frames, requested>>
                   ELSE /\ requested' = SeqAskAuthor(story_id)
                        /\ IF NewAuthor(ItemBy(story_id), seen_users)
                           THEN /\ pc' = "seq_story_author"
                                /\ UNCHANGED <<frames, seqItem>>
                           ELSE /\ SeqStoryKids(story_id)
                                /\ seqItem' = 0
  /\ UNCHANGED <<config, kidsGraph, queueLocals, pipeLocals, disk, files, run, env, runVars,
                 catLocals, comLocals, frame, result, passed, dropped, ledgerAtStart,
                 snapshotAtStart, writeLog, prevDown, prevListDown>>

\* the answer of get_user for the author of the story just kept
SeqStoryAuthor ==
  /\ pc = "seq_story_author"
  /\ LET category == Categories[catIdx]
         st == SeqAuthor(ItemBy(seqItem), "author_of_" \o category \o "_story",
                         [users |-> users, seen_users |-> seen_users,
                          crashed |-> FALSE])
     IN /\ users' = st.users
        /\ seen_users' = st.seen_users
        /\ IF st.crashed
           THEN /\ pc' = "crashed"
                /\ storyIdx' = 1
                /\ UNCHANGED frames
           ELSE /\ SeqStoryKids(seqItem)
                /\ UNCHANGED storyIdx
  /\ seqItem' = 0
  /\ UNCHANGED <<config, kidsGraph, queueLocals, pipeLocals, disk, files, run, env, runVars,
                 catIdx, stories, comments, seen_items, catLocals, comLocals, frame, result,
                 history>>

\* if depth >= max_depth: return; and the end of: for comment_id in comment_ids
SeqReturn ==
  /\ pc = "seq_comments"
  /\ LET top == frames[Len(frames)]
     IN top.depth >= max_comment_depth \/ top.ids = <<>>
  /\ frames' = SubSeq(frames, 1, Len(frames) - 1)
  /\ pc' = IF Len(frames) = 1 THEN "cat" ELSE "seq_comments"
  /\ UNCHANGED <<config, kidsGraph, queueLocals, pipeLocals, storyIdx, seqItem, disk, files,
                 run, env, runVars, catIdx, crawl, catLocals, comLocals, frame, result,
                 history>>

\* body of: for comment_id in comment_ids, up to the request of get_item, where
\* the crawler waits
SeqComment ==
  /\ pc = "seq_comments"
  /\ LET top == frames[Len(frames)]
         below == SubSeq(frames, 1, Len(frames) - 1)
     IN /\ top.depth < max_comment_depth
        /\ top.ids # <<>>
        /\ LET comment_id == Head(top.ids)
           IN /\ frames' = Append(below, [top EXCEPT !.ids = Tail(@)])
              /\ IF comment_id \in seen_items \/ comment_id \in processed_ids
                 THEN UNCHANGED <<pc, seqItem, requested>>
                 ELSE /\ requested' = [requested EXCEPT ![comment_id] = @ + 1]
                      /\ seqItem' = comment_id
                      /\ pc' = "seq_comment_item"
  /\ UNCHANGED <<config, kidsGraph, queueLocals, pipeLocals, disk, files, run, env, runVars,
                 storyIdx, catIdx, crawl, catLocals, comLocals, frame, result, passed,
                 dropped, ledgerAtStart, snapshotAtStart, writeLog, prevDown, prevListDown>>

\* the answer of get_item for a comment, up to the request of get_user for its
\* author or, without one, the recursive call on its kids
SeqCommentItem ==
  /\ pc = "seq_comment_item"
  /\ LET comment_id == seqItem
         category == Categories[catIdx]
         d == frames[Len(frames)].depth
         kept == Outcome("item", comment_id) = "ok" /\ ItemType(comment_id) = "comment"
     IN /\ comments' = IF kept
                        THEN Append(comments, CommentItem(comment_id, category, d))
                        ELSE comments
        /\ seen_items' = IF kept THEN seen_items \cup {comment_id} ELSE seen_items
        /\ UNCHANGED <<stories, users, seen_users>>
        /\ IF Outcome("item", comment_id) = "raise"
           THEN /\ pc' = "crashed"
                /\ frames' = <<>>
                /\ storyIdx' = 1
                /\ seqItem' = 0
                /\ UNCHANGED requested
           ELSE /\ UNCHANGED storyIdx
                /\ IF ~ kept
                   THEN /\ pc' = "seq_comments"
                        /\ seqItem' = 0
                        /\ UNCHANGED <<frames, requested>>
                   ELSE /\ requested' = SeqAskAuthor(comment_id)
                        /\ IF NewAuthor(ItemBy(comment_id), seen_users)
                           THEN /\ pc' = "seq_comment_author"
                                /\ UNCHANGED <<frames, seqItem>>
                           ELSE /\ SeqCommentKids(comment_id, frames, d)
                                /\ seqItem' = 0
  /\ UNCHANGED <<config, kidsGraph, queueLocals, pipeLocals, disk, files, run, env, runVars,
                 catIdx, catLocals, comLocals, frame, result, passed, dropped, ledgerAtStart,
                 snapshotAtStart, writeLog, prevDown, prevListDown>>

\* the answer of get_user for the author of the comment just kept
SeqCommentAuthor ==
  /\ pc = "seq_comment_author"
  /\ LET category == Categories[catIdx]
         st == SeqAuthor(ItemBy(seqItem), "commenter_on_" \o category,
                         [users |-> users, seen_users |-> seen_users,
                          crashed |-> FALSE])
     IN /\ users' = st.users
        /\ seen_users' = st.seen_users
        /\ IF st.crashed
           THEN /\ pc' = "crashed"
                /\ frames' = <<>>
                /\ storyIdx' = 1
           ELSE /\ SeqCommentKids(seqItem, frames, frames[Len(frames)].depth)
                /\ UNCHANGED storyIdx
  /\ seqItem' = 0
  /\ UNCHANGED <<config, kidsGraph, queueLocals, pipeLocals, disk, files, run, env, runVars,
                 catIdx, stories, comments, seen_items, catLocals, comLocals, frame, result,
                 history>>

\* the end of _fetch: snapshot, then the ledger; the items are returned
SeqPersist ==
  /\ pc = "cat"
  /\ catIdx > Len(Categories)
  /\ LET new_items == stories \o comments \o users
         new_ids == NewIds(new_items)
     IN /\ snapshotFile' = [exists |-> TRUE, stories |-> stories,
                            comments |-> comments, users |-> users]
        /\ processed_ids' = UpdatedLedger(processed_ids, new_ids)
        /\ ledgerDisk' = SaveProcessedIds(ledgerDisk, processed_ids')
        /\ ledgerFile' = LoadProcessedIds(ledgerDisk')
        /\ result' = new_items
  /\ writeLog' = <<"snapshot", "ledger">>
  /\ pc' = "done"
  /\ UNCHANGED <<config, outside, dumpFile, torn, writeFault, diskAtStart, loaded, run, env,
                 all_story_ids, new_story_ids_by_category, catIdx,
                 crawl, catLocals, comLocals, frame,
                 requested, passed, dropped, ledgerAtStart, snapshotAtStart,
                 prevDown, prevListDown>>

NextSeq ==
  \/ StartRun
  \/ ListCategory
  \/ FilterNewStories
  \/ SeqNextStory
  \/ SeqStoryItem
  \/ SeqStoryAuthor
  \/ SeqReturn
  \/ SeqComment
  \/ SeqCommentItem
  \/ SeqCommentAuthor
  \/ SeqPersist

SpecSeq == InitSeq /\ [][NextSeq]_vars

(***************************************************************************)
(* The queue crawler of hn_rag/fetcher.py: get_hn_content(story_ids,       *)
(* max_depth) takes the queue in batches of 20, fetches the ids of a batch *)
(* it has not seen with one gather (an exception of a fetch is not caught) *)
(* and appends the kids of every item to the queue.                        *)
(***************************************************************************)
\* the argument lists of get_hn_content: new top stories
RootLists == {<<1>>, <<2>>, <<1, 2>>, <<2, 1>>, <<2, 3>>, <<1, 2, 3>>, <<3, 2, 1>>}

\* queue[:20]
QueueBatch == 20

\* (item_id, depth, parent_id); parent_id None is 0
NoParent == 0

QueueEntry(item_id, d, parent_id) == [id |-> item_id, depth |-> d, parent |-> parent_id]

\* current_batch[batch_ids.index(item_id)]
ItemInfo(batch, item_id) ==
  batch[CHOOSE k \in 1..Len(batch) :
          /\ batch[k].id = item_id
          /\ \A j \in 1..(k - 1) : batch[j].id # item_id]

\* comment["story_id"] = story_ids[0]
CommentStoryId(ids, parent_id) == ids[1]

QueueStory(item_id) == [id |-> item_id, by |-> ItemBy(item_id), kids |-> ItemKids(item_id)]

QueueComment(item_id, d, parent_id) ==
  [id |-> item_id, story_id |-> CommentStoryId(q_story_ids, parent_id),
   parent_id |-> parent_id, by |-> ItemBy(item_id),
   depth |-> IF d - 1 > 0 THEN d - 1 ELSE 0, kids |-> ItemKids(item_id)]

InitQ ==
  /\ stories_per_category = DefaultStoriesPerCategory
  /\ kidsGraph \in {"tree", "cyclic"}
  /\ max_comment_depth \in 0..MaxDepth
  /\ max_top_comments = MaxTop
  /\ max_child_comments = MaxChild
  /\ batch_size = MaxBatch
  /\ ledgerFile = {}
  /\ pc = "idle"
  /\ processed_ids = {}
  /\ NotStarted
  /\ ledgerDisk = SaveProcessedIds(NoDisk, ledgerFile)
  /\ torn = {}
  /\ diskAtStart = ledgerDisk

\* the call: stories, comments, seen_ids empty; the roots in the queue
GetHnContent ==
  /\ pc \in {"idle", "q_done", "crashed"}
  /\ run < MaxRuns
  /\ run' = run + 1
  /\ q_story_ids' \in RootLists
  /\ \E d \in SUBSET FaultPool : Cardinality(d) <= MaxDown /\ down' = d
  /\ queue' = [k \in 1..Len(q_story_ids') |-> QueueEntry(q_story_ids'[k], 0, NoParent)]
  /\ stories' = <<>>
  /\ comments' = <<>>
  /\ seen_ids' = {}
  /\ current_batch' = <<>>
  /\ q_new_ids' = <<>>
  /\ requested' = [x \in AllIds |-> 0]
  /\ pc' = "q_loop"
  /\ UNCHANGED <<config, kidsGraph, seqLocals, pipeLocals, disk, files, listDown, runVars, catIdx,
                 users, seen_items, seen_users, catLocals, comLocals, frame, result,
                 passed, dropped, ledgerAtStart, snapshotAtStart, writeLog,
                 prevDown, prevListDown>>

\* while queue: take a batch and issue the fetches of what is not seen, up to
\* await asyncio.gather(*fetch_tasks); while ends: return
QueueTakeBatch ==
  /\ pc = "q_loop"
  /\ IF queue = <<>>
     THEN /\ pc' = "q_done"
          /\ UNCHANGED <<queue, current_batch, q_new_ids, requested>>
     ELSE LET batch == Take(queue, QueueBatch)
              fresh == SelectSeq([k \in 1..Len(batch) |-> batch[k].id],
                                 LAMBDA x : x \notin seen_ids)
          IN /\ current_batch' = batch
             /\ queue' = SubSeq(queue, Len(batch) + 1, Len(queue))
             /\ requested' = [x \in AllIds |->
                                requested[x]
                                  + Cardinality({k \in 1..Len(fresh) : fresh[k] = x})]
             /\ pc' = IF fresh = <<>> THEN "q_loop" ELSE "q_gather"
             /\ q_new_ids' = fresh
  /\ UNCHANGED <<config, kidsGraph, seqLocals, pipeLocals, q_story_ids, seen_ids, disk, files, run, env,
                 runVars, catIdx, crawl, catLocals, comLocals, frame, result,
                 passed, dropped, ledgerAtStart, snapshotAtStart, writeLog,
                 prevDown, prevListDown>>

\* items = await asyncio.gather(*fetch_tasks) answers: an exception of a fetch
\* leaves get_hn_content
QueueGather ==
  /\ pc = "q_gather"
  /\ IF \E k \in 1..Len(q_new_ids) : Outcome("item", q_new_ids[k]) = "raise"
     THEN /\ pc' = "crashed"
          /\ q_new_ids' = <<>>
     ELSE /\ pc' = "q_process"
          /\ UNCHANGED q_new_ids
  /\ UNCHANGED <<config, kidsGraph, seqLocals, pipeLocals, q_story_ids, queue, current_batch,
                 seen_ids, disk, files, run, env, runVars, catIdx, crawl, catLocals,
                 comLocals, frame, result, history>>

\* body of: for item_id, item in zip(new_ids, items)
QueueProcess ==
  /\ pc = "q_process"
  /\ q_new_ids # <<>>
  /\ LET item_id == Head(q_new_ids)
         item_info == ItemInfo(current_batch, item_id)
         kids == ItemKids(item_id)
     IN /\ q_new_ids' = Tail(q_new_ids)
        /\ pc' = IF Tail(q_new_ids) = <<>> THEN "q_loop" ELSE "q_process"
        /\ IF Outcome("item", item_id) = "null" \/ item_id \in seen_ids
           THEN UNCHANGED <<seen_ids, stories, comments, queue>>
           ELSE /\ seen_ids' = seen_ids \cup {item_id}
                /\ stories' = IF ItemType(item_id) = "story"
                              THEN Append(stories, QueueStory(item_id))
                              ELSE stories
                /\ comments' = IF ItemType(item_id) = "comment"
                               THEN Append(comments,
                                           QueueComment(item_id, item_info.depth,
                                                        item_info.parent))
                               ELSE comments
                /\ queue' = IF item_info.depth < max_comment_depth /\ kids # <<>>
                            THEN queue \o [k \in 1..Len(kids) |->
                                             QueueEntry(kids[k], item_info.depth + 1, item_id)]
                            ELSE queue
  /\ UNCHANGED <<config, kidsGraph, seqLocals, pipeLocals, q_story_ids, current_batch, disk, files, run,
                 env, runVars, catIdx, users, seen_items, seen_users, catLocals, comLocals,
                 frame, result, history>>

NextQ ==
  \/ GetHnContent
  \/ QueueTakeBatch
  \/ QueueGather
  \/ QueueProcess

SpecQueue == InitQ /\ [][NextQ]_vars

(***************************************************************************)
(* main of pipeline/run_pipeline.py: fetch_hackernews_data of              *)
(* data_analysis/fetcher.py (the sequential crawler, which writes the      *)
(* ledger before it returns), then preprocessing and the vector store.     *)
(* Every exception is caught by main, which returns False.  Importing the  *)
(* package src imports src/retriever.py, which raises FileNotFoundError    *)
(* when the corpus file is missing: no entry point of the package runs     *)
(* without a corpus file.  get_retriever and the Loader are entry points   *)
(* of their own and may run at any moment of a pipeline run.               *)
(***************************************************************************)
\* fetch_hackernews_data(stories_per_category=10, max_comments=5)
PipelineMaxComments == 5

\* an item save_preprocessed_data formats: a story, a comment, or a profile
\* (no type; "id" and "karma" present)
IsDocument(item) ==
  IF "type" \in DOMAIN item THEN item.type \in {"story", "comment"}
  ELSE item.id \in UserIds

\* documents: one per story, comment and profile of items, in their order
Documents(items) == SelectSeq(items, IsDocument)

\* the ids of the documents save_preprocessed_data writes for items
CorpusDocuments(items) == Ids(Documents(items))

\* the corpus file after the first k documents have been written: opened with
\* "a" it keeps what it held, opened with "w" it was emptied
PartlyWritten(corpus, docs, append, k) ==
  [exists |-> TRUE,
   ids |-> (IF append THEN corpus.ids ELSE {}) \cup {docs[j].id : j \in 1..k}]

\* save_preprocessed_data(items, output_file, append_mode) of preprocess.py and
\* of Loader: nothing is written without documents; at = 0: every write
\* succeeds; at = k > 0: the write of document k raises
SavePreprocessedData(corpus, items, append_mode, at) ==
  LET docs == Documents(items)
  IN IF docs = <<>> THEN corpus
     ELSE PartlyWritten(corpus, docs, append_mode /\ corpus.exists,
                        IF at = 0 THEN Len(docs) ELSE at - 1)

\* the documents get_new_chunks_only makes: stories and comments
NewChunks(items) ==
  {items[k].id : k \in {j \in 1..Len(items) : items[j].id \in ItemIds}}

\* the item lists handed to the Loader
LoaderInputs ==
  {<<[id |-> 4, type |-> "job"]>>,
   <<StoryItem(3, "newstories"), [id |-> 4, type |-> "job"]>>}

\* the ledgers of the installations the pipeline starts from
PipeLedgers == {{}, {5, alice}}

\* an installation: a corpus file is there; it and the vector store hold the
\* documents of the ledger's ids; a new installation (empty ledger) has a
\* corpus file without documents of the source and no vector store
InitPipe ==
  /\ stories_per_category = PipelineStoriesPerCategory
  /\ kidsGraph = "tree"
  /\ max_comment_depth = PipelineMaxComments
  /\ max_top_comments = SeqTopCap
  /\ max_child_comments = SeqChildCap
  /\ batch_size = 1
  /\ ledgerFile \in PipeLedgers
  /\ pc = "idle"
  /\ processed_ids = {}
  /\ CrawlNotStarted
  /\ corpusFile = [exists |-> TRUE, ids |-> ledgerFile]
  /\ vectorStore = IF ledgerFile = {} THEN [exists |-> FALSE, ids |-> {}]
                   ELSE [exists |-> TRUE, ids |-> ledgerFile]
  /\ mainBranch = "none"
  /\ mainReturn = "none"
  /\ retriever = RetrieverIdle
  /\ writtenDocs = corpusFile.ids
  /\ indexedDocs = vectorStore.ids
  /\ ledgerDisk = SaveProcessedIds(NoDisk, ledgerFile)
  /\ torn = {}
  /\ diskAtStart = ledgerDisk

\* main calls fetch_hackernews_data; the imports of run_pipeline.py raise
\* when the corpus file is missing
MainStart ==
  /\ pc \in {"idle", "returned"}
  /\ corpusFile.exists
  /\ run < MaxRuns
  /\ \E d \in SUBSET FaultPool, l \in ListFaultSets :
       /\ Cardinality(d) <= MaxDown
       /\ StartRunBody(LoadOutcome(ledgerDisk, "ledger" \in torn), d, l)
  /\ UNCHANGED writeFault

\* if not new_items: return True if vector_store_exists() else False
MainNoNewItems ==
  /\ pc = "done"
  /\ result = <<>>
  /\ mainReturn' = vectorStore.exists
  /\ pc' = "returned"
  /\ UNCHANGED <<config, kidsGraph, seqLocals, queueLocals, corpusFile, vectorStore,
                 mainBranch, retriever, writtenDocs, indexedDocs, disk, files, run, env,
                 runVars, catIdx, crawl, catLocals, comLocals, frame, result, history>>

\* append_preprocessed_data (corpus and store exist) or save_preprocessed_data;
\* an exception before the file is opened leaves the corpus as it was, an
\* exception of the write of document at leaves the documents before it
MainPreprocess ==
  /\ pc = "done"
  /\ result # <<>>
  /\ LET append == corpusFile.exists /\ vectorStore.exists
     IN \E raises \in {"no", "before_open", "write"}, at \in 1..Len(Documents(result)) :
          /\ corpusFile' = IF raises = "before_open" THEN corpusFile
                           ELSE SavePreprocessedData(corpusFile, result, append,
                                                     IF raises = "no" THEN 0 ELSE at)
          /\ writtenDocs' = IF raises = "before_open" THEN writtenDocs
                            ELSE writtenDocs \cup corpusFile'.ids
          /\ IF raises = "no"
             THEN /\ pc' = "preprocessed"
                  /\ mainBranch' = IF append THEN "incremental" ELSE "rebuild"
                  /\ UNCHANGED mainReturn
             ELSE /\ pc' = "returned"
                  /\ mainReturn' = FALSE
                  /\ UNCHANGED mainBranch
  /\ UNCHANGED <<config, kidsGraph, seqLocals, queueLocals, vectorStore, retriever,
                 indexedDocs, disk, files, run, env, runVars, catIdx, crawl, catLocals,
                 comLocals, frame, result, history>>

\* add_new_chunks_to_vector_store(get_new_chunks_only(new_items)) or
\* build_vector_store(split_documents(load_document(output_file)));
\* an exception leaves the store as it was
MainIndex ==
  /\ pc = "preprocessed"
  /\ pc' = "returned"
  /\ \E raises \in BOOLEAN :
       IF raises
       THEN /\ mainReturn' = FALSE
            /\ UNCHANGED <<vectorStore, indexedDocs>>
       ELSE LET chunks == IF mainBranch = "incremental" THEN NewChunks(result)
                          ELSE corpusFile.ids
            IN /\ mainReturn' = TRUE
               /\ vectorStore' = [exists |-> TRUE, ids |-> vectorStore.ids \cup chunks]
               /\ indexedDocs' = indexedDocs \cup chunks
  /\ UNCHANGED <<config, kidsGraph, seqLocals, queueLocals, corpusFile, mainBranch,
                 retriever, writtenDocs, disk, files, run, env, runVars, catIdx, crawl,
                 catLocals, comLocals, frame, result, history>>

\* except Exception: return False (a fetch of the crawl raised)
MainExcept ==
  /\ pc = "crashed"
  /\ pc' = "returned"
  /\ mainReturn' = FALSE
  /\ UNCHANGED <<config, kidsGraph, seqLocals, queueLocals, corpusFile, vectorStore,
                 mainBranch, retriever, writtenDocs, indexedDocs, disk, files, run, env,
                 runVars, catIdx, crawl, catLocals, comLocals, frame, result, history>>

\* get_retriever of src/retriever.py, called by the query side in a process of
\* its own: with a vector store it only loads it; without one it loads and
\* splits the corpus file (importing the module raises when the file is missing)
GetRetriever ==
  /\ retriever.pc = "idle"
  /\ corpusFile.exists
  /\ ~ vectorStore.exists
  /\ retriever' = [pc |-> "build", docs |-> corpusFile.ids]
  /\ UNCHANGED <<config, kidsGraph, seqLocals, queueLocals, corpusFile, vectorStore,
                 mainBranch, mainReturn, writtenDocs, indexedDocs, pc, disk, files, run,
                 env, runVars, catIdx, crawl, catLocals, comLocals, frame, result,
                 history>>

\* vectordb = build_vector_store(chunks) of get_retriever: the chunks are added
\* to the collection of the store directory; an exception leaves the store as
\* it was
GetRetrieverBuild ==
  /\ retriever.pc = "build"
  /\ retriever' = RetrieverIdle
  /\ \E raises \in BOOLEAN :
       IF raises THEN UNCHANGED <<vectorStore, indexedDocs>>
       ELSE /\ vectorStore' = [exists |-> TRUE,
                               ids |-> vectorStore.ids \cup retriever.docs]
            /\ indexedDocs' = indexedDocs \cup retriever.docs
  /\ UNCHANGED <<config, kidsGraph, seqLocals, queueLocals, corpusFile, mainBranch,
                 mainReturn, writtenDocs, pc, disk, files, run, env, runVars, catIdx,
                 crawl, catLocals, comLocals, frame, result, history>>

\* Loader.save_preprocessed_data(items, append_mode) of data_analysis/load.py
\* (append_preprocessed_data is the call with append_mode=True), an entry point
\* of its own that writes the same corpus file
LoaderSave ==
  /\ corpusFile.exists
  /\ \E items \in LoaderInputs, append_mode \in BOOLEAN :
       \E at \in 0..Len(Documents(items)) :
         /\ corpusFile' = SavePreprocessedData(corpusFile, items, append_mode, at)
         /\ writtenDocs' = writtenDocs \cup corpusFile'.ids
  /\ UNCHANGED <<config, kidsGraph, seqLocals, queueLocals, vectorStore, mainBranch,
                 mainReturn, retriever, indexedDocs, pc, disk, files, run, env, runVars,
                 catIdx, crawl, catLocals, comLocals, frame, result, history>>

NextPipe ==
  \/ MainStart
  \/ ListCategory
  \/ FilterNewStories
  \/ SeqNextStory
  \/ SeqStoryItem
  \/ SeqStoryAuthor
  \/ SeqReturn
  \/ SeqComment
  \/ SeqCommentItem
  \/ SeqCommentAuthor
  \/ SeqPersist
  \/ MainNoNewItems
  \/ MainPreprocess
  \/ MainIndex
  \/ MainExcept
  \/ GetRetriever
  \/ GetRetrieverBuild
  \/ LoaderSave

SpecPipe == InitPipe /\ [][NextPipe]_vars

(***************************************************************************)
(* save_processed_ids and load_processed_ids on their own: any set of ids  *)
(* saved over any earlier file, then loaded.                               *)
(***************************************************************************)
\* ids the saved set is drawn from: item ids and usernames
LedgerPool == {1, 2, 5, alice, bob}

\* what processed_ids.json holds before the call: nothing, or some earlier set
PriorLedgerFiles ==
  {NoDisk} \cup {SaveProcessedIds(NoDisk, S) : S \in {{}, {2}, {5, alice}, LedgerPool}}

InitL ==
  /\ stories_per_category = DefaultStoriesPerCategory
  /\ kidsGraph = "tree"
  /\ max_comment_depth = 1
  /\ max_top_comments = 1
  /\ max_child_comments = 1
  /\ batch_size = 1
  /\ ledgerDisk \in PriorLedgerFiles
  /\ torn \in {t \in {{}, {"ledger"}} : t = {} \/ ledgerDisk.exists}
  /\ ledgerFile = LoadProcessedIds(ledgerDisk)
  /\ processed_ids \in SUBSET LedgerPool
  /\ pc = "ledger_start"
  /\ NotStarted
  /\ diskAtStart = ledgerDisk

\* save_processed_ids(processed_ids)
LedgerSave ==
  /\ pc = "ledger_start"
  /\ ledgerDisk' = SaveProcessedIds(ledgerDisk, processed_ids)
  /\ torn' = torn \ {"ledger"}
  /\ ledgerFile' = LoadProcessedIds(ledgerDisk')
  /\ writeLog' = <<"ledger">>
  /\ pc' = "ledger_saved"
  /\ UNCHANGED <<config, outside, snapshotFile, dumpFile, run, env, runVars, catIdx, crawl,
                 catLocals, comLocals, frame, result,
                 requested, passed, dropped, ledgerAtStart, snapshotAtStart,
                 prevDown, prevListDown, writeFault, diskAtStart, loaded>>

\* load_processed_ids(), after a save or with the file as it was found
LedgerLoad ==
  /\ pc \in {"ledger_start", "ledger_saved"}
  /\ loaded' = LoadOutcome(ledgerDisk, "ledger" \in torn)
  /\ pc' = "ledger_loaded"
  /\ UNCHANGED <<config, outside, files, run, env, runVars, catIdx, crawl, catLocals, comLocals,
                 frame, result, history, ledgerDisk, torn, writeFault, diskAtStart>>

NextL == LedgerSave \/ LedgerLoad

SpecLedger == InitL /\ [][NextL]_vars

(***************************************************************************)
(* Properties.                                                             *)
(***************************************************************************)
Emitted == stories \o comments \o users

Returned == {"stories", "authors", "comments", "commenters"}

\* every item fetch issued so far in this run raised
AllItemFetchesFailed == \A x \in ItemIds : requested[x] > 0 => x \in down

\* C1: in the result of a run no id occurs twice across stories, comments and
\* users; a root story listed by two categories is emitted once.
C1_NoDuplicateIds ==
  pc = "done" =>
    \A i, j \in 1..Len(result) : i # j => result[i].id # result[j].id

\* C2: no story id, comment id or username of the ledger the run started with is
\* requested from the source or appears in the result of the run.
C2_LedgerNeverRefetched ==
  \A x \in ledgerAtStart : requested[x] = 0 /\ x \notin Ids(Emitted)

\* C3: a run that follows another run against the same source (same listings,
\* same outcome of every fetch) returns no item and leaves the ledger as it was.
C3_RecrawlIdempotent ==
  (run >= 2 /\ pc = "done" /\ down = prevDown /\ listDown = prevListDown)
    => (result = <<>> /\ ledgerFile = ledgerAtStart)

\* the second run did fetch (the job 4 is never absorbed) after a first run
\* that had emitted story 1
C3_Witness ==
  /\ run >= 2 /\ pc = "done" /\ down = prevDown /\ listDown = prevListDown
  /\ 1 \in ledgerFile
  /\ requested[4] > 0
  /\ writeLog # <<>>

\* C4: every emitted comment has a depth tag d with 0 <= d < max_comment_depth;
\* with max_comment_depth = 0 no comment is emitted.
C4_DepthBound ==
  \A k \in 1..Len(comments) :
    0 <= comments[k].hn_depth /\ comments[k].hn_depth < max_comment_depth

\* a comment of the last level that has children is emitted, children unexplored
C4_Witness ==
  /\ pc = "done"
  /\ max_comment_depth >= 2
  /\ \E k \in 1..Len(comments) :
       /\ comments[k].hn_depth = max_comment_depth - 1
       /\ ItemKids(comments[k].id) # <<>>
       /\ \A c \in SeqRange(ItemKids(comments[k].id)) : requested[c] = 0

FanOutCap(p) == IF ItemType(p) = "story" THEN max_top_comments ELSE max_child_comments

\* C5: a story passes on at most max_top_comments of its children, a comment at
\* most max_child_comments, always the first ones in source order, and no child
\* beyond the cap is requested.
C5_FanOutBound ==
  \A p \in ItemIds :
    /\ Len(passed[p]) <= FanOutCap(p)
    /\ Len(passed[p]) <= Len(ItemKids(p))
    /\ \A k \in 1..Len(passed[p]) : passed[p][k] = ItemKids(p)[k]
    /\ \A k \in (FanOutCap(p) + 1)..Len(ItemKids(p)) : requested[ItemKids(p)[k]] = 0

\* a story and a comment with more children than their caps were both expanded
C5_Witness ==
  /\ pc = "done"
  /\ \E p \in Ids(stories) :
       Len(ItemKids(p)) > max_top_comments /\ Len(passed[p]) = max_top_comments
  /\ \E p \in Ids(comments) :
       /\ Len(ItemKids(p)) > max_child_comments
       /\ Len(passed[p]) = max_child_comments
       /\ \A k \in 1..Len(passed[p]) : requested[passed[p][k]] > 0

\* C6: the persisted ledger never loses an id, whatever the run does.
C6_LedgerMonotone == [][ledgerFile \subseteq ledgerFile']_vars

\* a run with a failing fetch persisted on top of a non-empty ledger
C6_Witness ==
  /\ pc = "done"
  /\ writeLog # <<>>
  /\ down # {}
  /\ ledgerAtStart # {}
  /\ ledgerFile # ledgerAtStart

\* C7: fetch_batch returns, in input order, one result for every id whose fetch
\* succeeded with a value and none for the others, and the crawl never throws.
C7_PartialFailureTolerated ==
  /\ pc # "crashed"
  /\ pc \in Returned =>
       LET ok == SelectSeq(fb_ids, LAMBDA x : Outcome(fb_kind, x) = "ok")
       IN /\ Len(all_results) = Len(ok)
          /\ \A k \in 1..Len(ok) :
               all_results[k].id = ok[k] /\ all_results[k].status = "ok"

\* a batch in which one fetch raised and another succeeded has returned
C7_Witness ==
  /\ pc \in Returned
  /\ \E x \in SeqRange(fb_ids) : x \in down
  /\ Len(all_results) >= 1
  /\ Len(all_results) < Len(fb_ids)

\* C8: at most batch_size fetches are in flight; fetches are issued group by
\* group, each group the next batch_size consecutive positions of the input, and
\* only when no fetch of the previous group is still in flight.
C8_BoundedInFlight ==
  /\ [](Cardinality(inflight) <= batch_size)
  /\ [][inflight' \ inflight # {} =>
          /\ inflight = {}
          /\ (fb_i - 1) % batch_size = 0
          /\ inflight' = {q \in 1..Len(fb_ids) : fb_i <= q /\ q < fb_i + batch_size}]_vars

\* a full second group is in flight
C8_Witness ==
  /\ pc = "fetch_wait"
  /\ batch_size >= 2
  /\ fb_i > 1
  /\ Cardinality(inflight) = batch_size

\* C9: an id whose fetch as a comment gives null or an item that is not a
\* comment is absent from the result and is nevertheless in the in-run seen
\* set, so that it is not fetched again in the run.
C9_DroppedMarkedSeen ==
  \A x \in dropped :
    (x \notin down /\ ItemType(x) # "comment")
      => (x \notin Ids(Emitted) /\ x \in seen_items /\ requested[x] <= 1)

\* C10: a run in which every item fetch failed writes neither the snapshot nor
\* the ledger.
C10_AllFailedWritesNothing ==
  (pc = "done" /\ AllItemFetchesFailed) =>
    /\ writeLog = <<>>
    /\ snapshotFile = snapshotAtStart
    /\ ledgerFile = ledgerAtStart

\* ids asked for in this run that are not in what the run returned
DroppedIds == {x \in AllIds : requested[x] > 0} \ Ids(result)

\* C13: after a run that persisted, the ledger holds exactly the ledger before
\* the run together with the id of every story, comment and user of the
\* result; an id that was asked for and dropped is not added.
C13_LedgerIsOldPlusResult ==
  (pc = "done" /\ writeLog # <<>>) =>
     /\ ledgerFile = ledgerAtStart \cup Ids(result)
     /\ LoadProcessedIds(ledgerDisk) = ledgerAtStart \cup Ids(result)
     /\ \A x \in DroppedIds : x \in ledgerFile => x \in ledgerAtStart

C13_Witness ==
  /\ pc = "done"
  /\ writeLog # <<>>
  /\ ledgerAtStart # {}
  /\ Ids(result) \cap ItemIds # {}
  /\ Ids(result) \cap UserIds # {}
  /\ DroppedIds \ ledgerAtStart # {}
  /\ ~ (Ids(result) \subseteq ledgerAtStart)

\* the listing of category c has been answered in this run
ListingDone(c) == pc # "listing" \/ \E k \in 1..(catIdx - 1) : Categories[k] = c

\* C14: a category whose listing fails falls back to the empty list alone, the
\* other categories are still listed; get_all_stories gives an entry for every
\* category and never raises, even when every listing fails.
C14_ListingFailureIsolated ==
  run > 0 =>
     /\ DOMAIN all_story_ids = CategorySet
     /\ \A c \in CategorySet :
          all_story_ids[c] =
            IF c \in listDown \/ ~ ListingDone(c) THEN <<>>
            ELSE SubSeq(SourceList(c), 1, Min(stories_per_category, Len(SourceList(c))))
     /\ pc # "crashed"
     /\ (listDown = CategorySet /\ pc # "listing") => (pc = "done" /\ result = <<>>)

\* newstories fails in this run, every listing failed in the run before
C14_Witness ==
  /\ run = 2
  /\ prevListDown = CategorySet
  /\ listDown = {"newstories"}
  /\ all_story_ids["newstories"] = <<>>
  /\ all_story_ids["topstories"] = <<1, 2>>
  /\ all_story_ids["jobstories"] = <<4>>
  /\ requested[4] > 0

\* C16: within one run no story id and no comment id is requested from the
\* source more than once; an id listed by two categories is fetched only the
\* first time.
C16_NoIdRequestedTwice ==
  \A x \in ItemIds : requested[x] <= 1

\* root ids the listings of this run returned
ListedRoots == UNION {{all_story_ids[c][k] : k \in 1..Len(all_story_ids[c])} : c \in CategorySet}

\* C17: no comment of depth >= max_comment_depth is requested; the roots
\* requested are exactly the listed roots that are not in the ledger; a comment
\* of depth 0 is requested only if it is among the first max_top_comments kids
\* of a kept story; with max_comment_depth = 1 no kid of a depth-0 comment is
\* requested.
C17_RequestsWithinBounds ==
  /\ \A x \in CommentTreeIds : requested[x] > 0 => TreeDepth(x) < max_comment_depth
  /\ \A x \in ItemIds \ CommentTreeIds :
        requested[x] > 0 => (x \in ListedRoots /\ x \notin ledgerAtStart)
  /\ (pc = "done" /\ run > 0) =>
        \A x \in ListedRoots \ ledgerAtStart : requested[x] > 0
  /\ \A x \in CommentTreeIds :
        (requested[x] > 0 /\ TreeDepth(x) = 0) =>
           \E k \in 1..Len(stories) :
              \E n \in 1..Len(ItemKids(stories[k].id)) :
                 n <= max_top_comments /\ ItemKids(stories[k].id)[n] = x
  /\ max_comment_depth = 1 =>
        \A x \in CommentTreeIds : (requested[x] > 0 => TreeDepth(x) = 0)

\* depth limit 1, two top comments: of story 1's kids 5 and 6 are requested, 7
\* is not, nor are the kids of comment 5; story 2 is in the ledger
C17_Witness ==
  /\ pc = "done"
  /\ max_comment_depth = 1
  /\ max_top_comments = 2
  /\ ledgerAtStart = {2}
  /\ requested[1] = 1 /\ requested[3] = 1 /\ requested[2] = 0
  /\ requested[5] = 1 /\ requested[6] = 1 /\ requested[7] = 0
  /\ 5 \in Ids(comments)
  /\ requested[10] = 0 /\ requested[11] = 0

\* the first max_child_comments kids of every emitted comment of depth d of the
\* category, in the order the comments were emitted
RECURSIVE CombinedKids(_, _, _)
CombinedKids(cs, d, category) ==
  IF cs = <<>> THEN <<>>
  ELSE LET c == Head(cs)
           kids == ItemKids(c.id)
       IN (IF c.hn_depth = d /\ c.hn_category = category
           THEN SubSeq(kids, 1, Min(max_child_comments, Len(kids))) ELSE <<>>)
          \o CombinedKids(Tail(cs), d, category)

\* while the comments of a level are being fetched every one of them lies at
\* that level and no comment of the category has been emitted from that level
\* or below; while its commenters are being fetched none from below
LevelsInOrder ==
  pc \in {"fetch_issue", "fetch_wait", "comments", "commenters"} =>
    /\ fb_ret = "comments" =>
         /\ \A k \in 1..Len(fb_ids) : TreeDepth(fb_ids[k]) = depth
         /\ \A k \in 1..Len(comments) :
              (comments[k].hn_category = Categories[catIdx] /\ pc # "comments")
                 => comments[k].hn_depth < depth
    /\ fb_ret = "commenters" =>
         /\ \A k \in 1..Len(fb_ids) :
              \E j \in 1..Len(comments) :
                 /\ comments[j].by = fb_ids[k]
                 /\ comments[j].hn_depth = depth
                 /\ comments[j].hn_category = Categories[catIdx]
         /\ \A k \in 1..Len(comments) :
              comments[k].hn_category = Categories[catIdx] => comments[k].hn_depth <= depth

\* C19: the comment expansion of a category goes level by level: the fetches of
\* the comments and of the commenters of depth d are all back before a comment
\* of depth d + 1 is requested, and each deeper level is entered once, from the
\* level above, with the combined child ids of all comments kept at that level.
C19_BreadthFirstByLevel ==
  /\ []LevelsInOrder
  /\ [][(pc' = "comments_enter" /\ pc # "comments_enter") =>
          /\ inflight = {} /\ inflight' = {}
          /\ catIdx' = catIdx
          /\ \/ pc \in {"stories", "authors"} /\ depth' = 0
             \/ /\ pc \in {"comments", "commenters"}
                /\ depth' = depth + 1
                /\ comment_ids' = CombinedKids(comments', depth, Categories[catIdx])]_vars

\* level 1 of topstories is being fetched: the kids of comments 5 and 9
C19_Witness ==
  /\ pc = "fetch_wait"
  /\ fb_ret = "comments"
  /\ catIdx = 1
  /\ depth = 1
  /\ fb_ids = <<10, 11, 13>>
  /\ inflight # {}
  /\ {5, 9} \subseteq Ids(comments)
  /\ {bob, carol} \subseteq Ids(users)

\* position of a category in the configured order
CatPos(c) == CHOOSE k \in 1..Len(Categories) : Categories[k] = c

\* the items that list id among their kids, in the tree or the cyclic source
ParentsIn(graph, id) ==
  {p \in ItemIds : \E k \in 1..Len(IF graph = "cyclic" THEN CyclicKids(p) ELSE TreeKids(p)) :
                      (IF graph = "cyclic" THEN CyclicKids(p) ELSE TreeKids(p))[k] = id}

\* S with everything above it
RECURSIVE UpClosure(_, _)
UpClosure(graph, S) ==
  LET next == S \cup UNION {ParentsIn(graph, x) : x \in S}
  IN IF next = S THEN S ELSE UpClosure(graph, next)

TreeRoots ==
  [id \in ItemIds |-> {r \in UpClosure("tree", {id}) : ParentsIn("tree", r) = {}}]

CyclicRoots ==
  [id \in ItemIds |-> {r \in UpClosure("cyclic", {id}) : ParentsIn("cyclic", r) = {}}]

\* the root items an item hangs under: one in the tree source, possibly
\* several in the cyclic one (the crawl reaches the item from one of them)
RootsOf(id) == IF kidsGraph = "cyclic" THEN CyclicRoots[id] ELSE TreeRoots[id]

\* every fetch under way belongs to the current category, what was emitted is
\* in category order, and a finished run went through every category
OneCategoryAtATime ==
  /\ pc \in {"fetch_issue", "fetch_wait"} =>
       LET listed == {all_story_ids[Categories[catIdx]][k] :
                        k \in 1..Len(all_story_ids[Categories[catIdx]])}
       IN /\ fb_ret = "stories" => \A k \in 1..Len(fb_ids) : fb_ids[k] \in listed
          /\ fb_ret = "authors" =>
               \A k \in 1..Len(fb_ids) :
                  \E j \in 1..Len(stories) :
                     /\ stories[j].by = fb_ids[k]
                     /\ stories[j].hn_category = Categories[catIdx]
          /\ fb_ret = "comments" =>
               \A k \in 1..Len(fb_ids) : RootsOf(fb_ids[k]) \cap listed # {}
          /\ fb_ret = "commenters" =>
               \A k \in 1..Len(fb_ids) :
                  \E j \in 1..Len(comments) :
                     /\ comments[j].by = fb_ids[k]
                     /\ comments[j].hn_category = Categories[catIdx]
  /\ \A i, j \in 1..Len(stories) :
       i < j => CatPos(stories[i].hn_category) <= CatPos(stories[j].hn_category)
  /\ \A i, j \in 1..Len(comments) :
       i < j => CatPos(comments[i].hn_category) <= CatPos(comments[j].hn_category)
  /\ \A k \in 1..Len(stories) : CatPos(stories[k].hn_category) <= catIdx
  /\ \A k \in 1..Len(comments) : CatPos(comments[k].hn_category) <= catIdx
  /\ (pc = "done" /\ run > 0) =>
       \A c \in CategorySet : \A k \in 1..Len(all_story_ids[c]) :
          all_story_ids[c][k] \in ledgerAtStart \/ requested[all_story_ids[c][k]] > 0

\* C20: the categories are processed one after another in the configured
\* order: the crawl moves to the next category only when no fetch of the
\* current one is under way, and a category whose roots are all in the ledger is
\* skipped without ending the loop.
C20_CategoriesSequential ==
  /\ []OneCategoryAtATime
  /\ [][(catIdx' # catIdx /\ pc # "listing") =>
          \/ run' = run + 1 /\ catIdx' = 1
          \/ /\ run' = run
             /\ catIdx' = catIdx + 1
             /\ inflight = {} /\ inflight' = {}
             /\ pc' = "cat"]_vars

\* second run: topstories and newstories are listed but wholly in the ledger,
\* three categories list nothing, jobstories is still crawled
C20_Witness ==
  /\ pc = "done"
  /\ run = 2
  /\ all_story_ids["topstories"] = <<1, 2>>
  /\ new_story_ids_by_category["topstories"] = <<>>
  /\ all_story_ids["newstories"] = <<2, 3>>
  /\ new_story_ids_by_category["newstories"] = <<>>
  /\ requested[4] = 1
  /\ catIdx = Len(Categories) + 1

C11_CorruptLedgerReadAsEmpty ==
  /\ loaded.status # "raise"
  /\ pc # "load_failed"

\* C12: a run that ends in failure because a write of the persistence step
\* raised leaves the ledger file exactly as it was before the run.
C12_FailedRunLeavesLedger ==
  pc = "failed" => (ledgerDisk = diskAtStart /\ "ledger" \notin torn)

\* C18: the ledger file is written only after the snapshot file has been
\* written in the same run; when the snapshot write raises, the ledger is not
\* saved in that run and the run ends in failure.
C18_LedgerAfterSnapshot ==
  /\ [](\A k \in 1..Len(writeLog) :
          writeLog[k] = "ledger" => \E j \in 1..(k - 1) : writeLog[j] = "snapshot")
  /\ []((pc \in {"writing", "failed", "done"} /\ writeFault.file = "snapshot") =>
          /\ writeLog = <<>>
          /\ ledgerDisk = diskAtStart
          /\ pc # "writing"
          /\ pc = "done" => new_story_ids_by_category = [c \in CategorySet |-> <<>>])
  /\ [][(ledgerDisk' # ledgerDisk \/ (processed_ids' # processed_ids /\ run' = run)) =>
          (writeLog = <<"snapshot">> /\ snapshotFile.exists /\ "snapshot" \notin torn)]_vars

\* the snapshot write raised half way: the run failed with the ledger not saved
C18_Witness ==
  /\ pc = "failed"
  /\ writeFault = [file |-> "snapshot", torn |-> TRUE]
  /\ "snapshot" \in torn
  /\ stories # <<>>
  /\ writeLog = <<>>
  /\ ledgerDisk = diskAtStart

\* x is among the first n kids of item p
AmongFirstKids(x, p, n) ==
  \E k \in 1..Len(ItemKids(p)) : k <= n /\ ItemKids(p)[k] = x

\* C21: the depth tags follow the tree: an emitted comment of depth 0 is one of
\* the first max_top_comments kids of a story emitted in the same run, an
\* emitted comment of depth d > 0 is one of the first max_child_comments kids of
\* a comment emitted in the same run with depth d - 1.
C21_DepthTagsFollowTree ==
  \A k \in 1..Len(comments) :
     LET c == comments[k]
     IN /\ c.hn_depth >= 0
        /\ c.hn_depth = 0 =>
             \E j \in 1..Len(stories) : AmongFirstKids(c.id, stories[j].id, max_top_comments)
        /\ c.hn_depth > 0 =>
             \E j \in 1..Len(comments) :
                /\ comments[j].hn_depth = c.hn_depth - 1
                /\ AmongFirstKids(c.id, comments[j].id, max_child_comments)

\* comments of depth 0 and of depth 1 are emitted: 10 under 5 under story 1
C21_Witness ==
  /\ pc = "done"
  /\ \E k \in 1..Len(comments) : comments[k].id = 5 /\ comments[k].hn_depth = 0
  /\ \E k \in 1..Len(comments) : comments[k].id = 10 /\ comments[k].hn_depth = 1
  /\ \E k \in 1..Len(comments) : comments[k].id = 13 /\ comments[k].hn_depth = 1
  /\ 1 \in Ids(stories)

\* the categories whose listing of this run holds the root id x
ListingCategories(x) ==
  {c \in CategorySet : \E k \in 1..Len(all_story_ids[c]) : all_story_ids[c][k] = x}

\* C22: every item of the stories list is of type story and is tagged with the
\* category whose list it was fetched from; every item of the comments list is
\* of type comment and is tagged with the category of the story pass that
\* reached it, the context label of that category and its depth; an item of
\* another type is in neither list.
C22_TypesAndTags ==
  /\ \A k \in 1..Len(stories) :
       LET s == stories[k]
       IN /\ ItemType(s.id) = "story"
          /\ s.type = "story"
          /\ s.hn_category \in ListingCategories(s.id)
          /\ s.hn_endpoint = s.hn_category
          /\ CatPos(s.hn_category) <= catIdx
  /\ \A k \in 1..Len(comments) :
       LET c == comments[k]
       IN /\ ItemType(c.id) = "comment"
          /\ c.type = "comment"
          /\ \E r \in RootsOf(c.id) :
                /\ c.hn_category \in ListingCategories(r)
                /\ \E j \in 1..Len(stories) :
                      stories[j].id = r /\ stories[j].hn_category = c.hn_category
          /\ c.hn_context = "comment_on_" \o c.hn_category \o "_story"
          /\ c.hn_depth = TreeDepth(c.id)
  /\ \A x \in ItemIds :
       ItemType(x) \notin {"story", "comment"} => x \notin Ids(stories) \cup Ids(comments)

\* job 4 and the untyped item 6 were fetched and dropped, story 3 is tagged
\* newstories, comment 5 topstories
C22_Witness ==
  /\ pc = "done"
  /\ requested[4] > 0 /\ requested[6] > 0
  /\ 4 \notin down /\ 6 \notin down
  /\ \E k \in 1..Len(stories) : stories[k].id = 3 /\ stories[k].hn_category = "newstories"
  /\ \E k \in 1..Len(comments) :
        /\ comments[k].id = 5
        /\ comments[k].hn_category = "topstories"
        /\ comments[k].hn_context = "comment_on_topstories_story"

\* C26: the author of every emitted comment, also of a comment of the last
\* depth whose kids are not expanded, is already in seen_users when the comment
\* is kept or has its profile requested in the commenter fetch of that level.
C26_AuthorsOfEveryLevel ==
  /\ [][run' = run =>
          \A k \in (Len(comments) + 1)..Len(comments') :
             LET author == comments'[k].by
             IN \/ author = NoAuthor
                \/ author \in seen_users
                \/ /\ pc' = "fetch_issue"
                   /\ fb_kind' = "user"
                   /\ fb_ret' = "commenters"
                   /\ \E n \in 1..Len(fb_ids') : fb_ids'[n] = author]_vars
  /\ [](pc \in {"cat", "done"} =>
          \A k \in 1..Len(comments) :
             comments[k].by = NoAuthor \/ requested[comments[k].by] > 0)

\* depth limit 2: comment 10 of the last depth 1 is emitted and the profile of
\* its author dave, met nowhere else, was requested
C26_Witness ==
  /\ pc = "done"
  /\ max_comment_depth = 2
  /\ \E k \in 1..Len(comments) :
        /\ comments[k].id = 10
        /\ comments[k].hn_depth = max_comment_depth - 1
        /\ comments[k].by = dave
  /\ requested[dave] = 1
  /\ requested[14] = 0

\* C27: when every root id of every category is in the ledger that was loaded,
\* the run issues no item fetch and no user fetch, returns the empty list and
\* leaves the ledger file, the snapshot file and the item dump as they were.
C27_NothingNewTouchesNothing ==
  /\ []((run > 0 /\ pc \notin {"load_failed", "listing"}
             /\ ListedRoots \subseteq loaded.ids) =>
          /\ pc = "done"
          /\ result = <<>>
          /\ \A x \in AllIds : requested[x] = 0
          /\ writeLog = <<>>
          /\ ledgerDisk = diskAtStart
          /\ snapshotFile = snapshotAtStart)
  /\ [][(run' > 0 /\ pc' # "load_failed" /\ ListedRoots' \subseteq loaded'.ids) =>
          /\ ledgerDisk' = ledgerDisk
          /\ snapshotFile' = snapshotFile
          /\ dumpFile' = dumpFile
          /\ torn' = torn]_vars

\* second run: stories 1, 2, 3 are listed and in the ledger, the job listing
\* failed; the files of the first run are still there
C27_Witness ==
  /\ run = 2
  /\ pc = "done"
  /\ ListedRoots = {1, 2, 3}
  /\ ListedRoots \subseteq loaded.ids
  /\ \A x \in AllIds : requested[x] = 0
  /\ result = <<>>
  /\ dumpFile # <<>>
  /\ snapshotFile.stories # <<>>

\* the crawl is fetching or processing the comments of some level
InCommentLevel ==
  \/ pc \in {"comments", "commenters"}
  \/ pc \in {"fetch_issue", "fetch_wait"} /\ fb_ret \in {"comments", "commenters"}

\* C24: every crawl terminates, also on a source whose kids lists hold cycles
\* and shared children: a started run reaches the end of the run, and no
\* category is expanded beyond max_comment_depth levels.
C24_CrawlTerminates ==
  /\ (pc \notin {"idle", "done"}) ~> (pc = "done")
  /\ [](InCommentLevel => depth < max_comment_depth)

\* a run against the cyclic source ended: comment 5, which names itself, was
\* requested once, and comment 10, kid of 5 and of 9, was reached
C24_Witness ==
  /\ kidsGraph = "cyclic"
  /\ pc = "done"
  /\ max_comment_depth = 2
  /\ requested[5] = 1
  /\ requested[9] = 1
  /\ requested[10] >= 1
  /\ requested[13] = 1

\* what fetch_batch returns when every fetch of a group is back: the valid
\* results in the order of the ids
FetchBatchInOrder(ids, kind) ==
  SelectSeq([k \in 1..Len(ids) |-> [id |-> ids[k], status |-> Outcome(kind, ids[k])]],
            LAMBDA r : r.status \notin {"null", "raise"})

\* get_comments_with_metadata from depth d on, as a function of its arguments
RECURSIVE ExpandInOrder(_, _, _, _, _)
ExpandInOrder(ids, d, category, ledger, st) ==
  LET new == SelectSeq(ids, LAMBDA cid : cid \notin st.seen_items /\ cid \notin ledger)
  IN IF d >= max_comment_depth \/ ids = <<>> \/ new = <<>> THEN st
     ELSE LET acc == CommentLoop(FetchBatchInOrder(new, "item"), category, d,
                       [comments |-> st.comments, seen_items |-> st.seen_items,
                        seen_users |-> st.seen_users, comment_authors |-> <<>>,
                        child_comment_ids |-> <<>>, passed |-> passed,
                        kept |-> {}, crashed |-> FALSE])
              us == IF acc.comment_authors = <<>> THEN st.users
                    ELSE UserLoop(FetchBatchInOrder(acc.comment_authors, "user"),
                                  "commenter_on_" \o category,
                                  [users |-> st.users, crashed |-> FALSE]).users
              st2 == [st EXCEPT !.comments = acc.comments, !.users = us,
                                !.seen_items = acc.seen_items,
                                !.seen_users = acc.seen_users]
          IN IF acc.child_comment_ids # <<>> /\ d < max_comment_depth - 1
             THEN ExpandInOrder(acc.child_comment_ids, d + 1, category, ledger, st2)
             ELSE st2

\* get_hn_content_with_metadata from category k on, as a function of its arguments
RECURSIVE CrawlInOrder(_, _, _, _)
CrawlInOrder(k, byCat, ledger, st) ==
  IF k > Len(Categories) THEN st
  ELSE LET category == Categories[k]
           new == SelectSeq(byCat[category], LAMBDA sid : sid \notin ledger)
       IN IF new = <<>> THEN CrawlInOrder(k + 1, byCat, ledger, st)
          ELSE LET acc == StoryLoop(FetchBatchInOrder(new, "item"), category,
                            [stories |-> st.stories, seen_items |-> st.seen_items,
                             seen_users |-> st.seen_users, story_authors |-> <<>>,
                             all_comment_ids |-> <<>>, passed |-> passed,
                             crashed |-> FALSE])
                   us == IF acc.story_authors = <<>> THEN st.users
                         ELSE UserLoop(FetchBatchInOrder(acc.story_authors, "user"),
                                       "author_of_" \o category \o "_story",
                                       [users |-> st.users, crashed |-> FALSE]).users
                   st2 == [st EXCEPT !.stories = acc.stories, !.users = us,
                                     !.seen_items = acc.seen_items,
                                     !.seen_users = acc.seen_users]
               IN CrawlInOrder(k + 1, byCat, ledger,
                               IF acc.all_comment_ids = <<>> THEN st2
                               ELSE ExpandInOrder(acc.all_comment_ids, 0, category,
                                                  ledger, st2))

\* the crawl of this run with every batch coming back in the order of its ids
InOrderResult ==
  CrawlInOrder(1, new_story_ids_by_category, loaded.ids,
               [stories |-> <<>>, comments |-> <<>>, users |-> <<>>,
                seen_items |-> {}, seen_users |-> {}])

\* C25: the result of a crawl does not depend on the order in which the
\* fetches of a batch come back: for one source, ledger and configuration,
\* whatever the completion order, the emitted stories, comments and users with
\* their category, context and depth tags are those of the crawl in which
\* every batch comes back in the order of its ids.
C25_CompletionOrderIrrelevant ==
  (pc = "done" /\ writeLog # <<>>) =>
     /\ SeqRange(stories) = SeqRange(InOrderResult.stories)
     /\ SeqRange(comments) = SeqRange(InOrderResult.comments)
     /\ SeqRange(users) = SeqRange(InOrderResult.users)
     /\ SeqRange(result) = SeqRange(InOrderResult.stories) \cup SeqRange(InOrderResult.comments)
                             \cup SeqRange(InOrderResult.users)

\* a batch of two comments of depth 1 in which the second fetch is back before
\* the first
C25_Witness ==
  /\ pc = "fetch_wait"
  /\ fb_ret = "comments"
  /\ depth = 1
  /\ batch_size = 2
  /\ inflight = {1}
  /\ DOMAIN got = {1, 2}
  /\ got[2] = "ok"
  /\ fb_ids[2] # fb_ids[1]

\* the comments of a list with their depth tags
DepthTags(cs) == {<<cs[k].id, cs[k].hn_depth>> : k \in 1..Len(cs)}

\* C29: on a tree-shaped source in which no fetch fails, the sequential
\* depth-first crawler returns the story ids, the comment ids with their depth
\* tags and the usernames that the batched breadth-first crawler with
\* max_top_comments = 5 and max_child_comments = 3 returns for the same
\* listings, ledger and depth limit.
C29_CrawlersAgree ==
  (pc = "done" /\ writeLog # <<>> /\ down = {}) =>
     /\ Ids(stories) = Ids(InOrderResult.stories)
     /\ DepthTags(comments) = DepthTags(InOrderResult.comments)
     /\ Ids(users) = Ids(InOrderResult.users)

\* the sequential crawl ended with comments of depth 0 and 1 and all three
\* kids of comment 5
C29_Witness ==
  /\ pc = "done"
  /\ writeLog # <<>>
  /\ down = {}
  /\ max_comment_depth = 2
  /\ {<<5, 0>>, <<9, 0>>, <<10, 1>>, <<11, 1>>, <<12, 1>>, <<13, 1>>} \subseteq DepthTags(comments)
  /\ {1, 2, 3} \subseteq Ids(stories)
  /\ {alice, bob, carol} \subseteq Ids(users)

\* C23: within a run each username is requested at most once, across the
\* categories and depths, also when the profile fetch fails or returns null.
\* Refuted for the sequential crawler, which remembers a username only when
\* its profile came back.
C23_UsernameRequestedOnce == \A u \in UserIds : requested[u] <= 1

\* the root reached from an item through the parent links of the emitted
\* comments
RECURSIVE RootReached(_)
RootReached(x) ==
  IF \E k \in 1..Len(comments) : comments[k].id = x
  THEN RootReached((CHOOSE c \in {comments[k] : k \in 1..Len(comments)} : c.id = x).parent_id)
  ELSE x

\* C30: in get_hn_content called with several root story ids, the story_id
\* of every emitted comment is the root story from which the comment was
\* reached.  Refuted: every comment gets the first root id.
C30_StoryIdIsRoot ==
  \A k \in 1..Len(comments) : comments[k].story_id = RootReached(comments[k].id)

\* C28: after any sequence of pipeline runs, also runs in which preprocessing
\* or the vector-store update raises, the document of every story or comment
\* id of the ledger has been written to the preprocessed corpus and has been
\* added to the vector store.
\* Refuted: the fetch writes the ledger before the later steps run.
C28_LedgerAndCorpusConsistent ==
  (pc \in {"idle", "returned"}) =>
     \A x \in ledgerFile \cap ItemIds : x \in writtenDocs /\ x \in indexedDocs

====
